---- MODULE Spec2Model ----
(***************************************************************************)
(* A model of the validation layer of the pantry application               *)
(* (src/lib/validation/utils.ts, the schema registry of src/lib/supabase.ts *)
(* and the data-access services of src/lib/database.ts).                   *)
(*                                                                         *)
(* JavaScript values are tagged records; a JavaScript string is a sequence *)
(* of one-character strings, so that trimming, length checks and escaping  *)
(* are computed and not assumed.                                           *)
(***************************************************************************)
EXTENDS Integers, Sequences, FiniteSets, TLC

VARIABLES
    results,    \* the ValidationResult arguments a caller has assembled
    merged,     \* <<r>> once collectValidationErrors(...results) returned r, else << >>
    call,       \* the validation function called last, with its arguments
    ret,        \* what that call returned (or threw); NoCall while it is pending
    trace,      \* what a data-access operation did so far, in order: its
                \* validateOrThrow calls, its backend requests, the responses
    now,        \* the clock of the event loop
    timeoutId,  \* timeoutId of the debounced validator; 0 stands for null
    timers,     \* the timers set and neither cleared nor run: [id, due, data]
    history,    \* the validator calls, cleanups and validations so far
    pantry,     \* the rows of the ingredients table for one user and one item
                \* name, in the order the backend returns them: [id, quantity]
    stocked,    \* the quantity in the pantry before any call (0: no row)
    shoppers,   \* the calls of addOrUpdateFromShopping: where each one is,
                \* the quantity it adds, the row it found
    cache,      \* _cache of database.ts: a function from its keys to its values
    page,       \* the Recipes page: mounted or not, and its state minMatch,
                \* maxMissing, itemsToShow
    loader,     \* the run of loadData: the await it is at (4: none), and the
                \* minMatch, maxMissing, itemsToShow its closure holds
    form,       \* the run of handleRecipeFormSubmit: where it is, and the
                \* minMatch, maxMissing, itemsToShow its closure holds
    written     \* the number of recipe writes the backend has completed

timerVars == <<now, timeoutId, timers, history>>

pantryVars == <<pantry, stocked, shoppers>>

cacheVars == <<cache, page, loader, form, written>>

vars == <<results, merged, call, ret, trace, timerVars, pantryVars, cacheVars>>

(***************************************************************************)
(* JavaScript values                                                       *)
(***************************************************************************)
Undefined == [t |-> "undefined"]
Null == [t |-> "null"]
Str(s) == [t |-> "string", s |-> s]
Num(n) == [t |-> "number", n |-> n, h |-> FALSE]
NumHalf(n) == [t |-> "number", n |-> n, h |-> TRUE]
NaN == [t |-> "nan"]
Bool(b) == [t |-> "boolean", b |-> b]
Arr(a) == [t |-> "array", a |-> a]
Obj(o) == [t |-> "object", o |-> o]

(***************************************************************************)
(* ValidationError and ValidationResult (utils.ts:6-16)                    *)
(***************************************************************************)
ValidationError(field, message) == [field |-> field, message |-> message]

Success(data) == [success |-> TRUE, data |-> data]

Failure(errors) == [success |-> FALSE, errors |-> errors]

(***************************************************************************)
(* collectValidationErrors (utils.ts:300-326)                              *)
(***************************************************************************)
\* the loop of lines 306-312, run over results[1..n]
RECURSIVE CollectLoop(_, _)
CollectLoop(rs, n) ==
    IF n = 0
    THEN [errors |-> << >>, lastSuccessData |-> Undefined]
    ELSE LET acc == CollectLoop(rs, n - 1)
             result == rs[n]
         IN  IF ~result.success
             THEN [acc EXCEPT !.errors = acc.errors \o result.errors]
             ELSE [acc EXCEPT !.lastSuccessData = result.data]

\* collectValidationErrors without the guard of lines 318-323
collectValidationErrors_NoEmptyGuard(rs) ==
    LET acc == CollectLoop(rs, Len(rs))
    IN  IF Len(acc.errors) > 0
        THEN Failure(acc.errors)
        ELSE Success(acc.lastSuccessData)

collectValidationErrors(rs) ==
    LET acc == CollectLoop(rs, Len(rs))
    IN  IF Len(acc.errors) > 0
        THEN Failure(acc.errors)
        ELSE IF acc.lastSuccessData = Undefined
             THEN Failure(<<ValidationError("general", "No valid data found")>>)
             ELSE Success(acc.lastSuccessData)

\* mergeValidationResults that returns the last result as it is
mergeValidationResults_LastResult(rs) ==
    IF rs = << >> THEN collectValidationErrors(rs) ELSE rs[Len(rs)]

mergeValidationResults(rs) == collectValidationErrors(rs)

(***************************************************************************)
(* JavaScript strings as sequences of characters                           *)
(***************************************************************************)
IsSpace(c) == c \in {" ", "\t", "\n"}

RECURSIVE TrimStart(_)
TrimStart(s) == IF s # << >> /\ IsSpace(Head(s)) THEN TrimStart(Tail(s)) ELSE s

RECURSIVE TrimEnd(_)
TrimEnd(s) ==
    IF s # << >> /\ IsSpace(s[Len(s)]) THEN TrimEnd(SubSeq(s, 1, Len(s) - 1)) ELSE s

\* String.prototype.trim
Trim(s) == TrimEnd(TrimStart(s))

\* Array.prototype.join for an array of strings
RECURSIVE Join(_, _)
Join(parts, sep) ==
    IF parts = << >> THEN ""
    ELSE IF Len(parts) = 1 THEN parts[1]
    ELSE parts[1] \o sep \o Join(Tail(parts), sep)

(***************************************************************************)
(* The schema library (zod 3): schemas are records, parsing is computed.   *)
(* A parse returns a status ("valid", "dirty": issues but a value,         *)
(* "aborted": no value), the output value and the issues in the order the  *)
(* library reports them.                                                   *)
(***************************************************************************)
ZString(checks) == [k |-> "string", checks |-> checks]
ZNumber(checks) == [k |-> "number", checks |-> checks]
ZBoolean == [k |-> "boolean"]
ZEnum(values, m) == [k |-> "enum", values |-> values, m |-> m]
ZLiteral(v) == [k |-> "literal", value |-> v]
ZOptional(inner) == [k |-> "optional", inner |-> inner]
ZNullable(inner) == [k |-> "nullable", inner |-> inner]
ZDefault(inner, def) == [k |-> "default", inner |-> inner, def |-> def]
ZArray(item) == [k |-> "array", item |-> item]
ZUnion(options) == [k |-> "union", options |-> options]
ZObject(keys, shape) == [k |-> "object", keys |-> keys, shape |-> shape]

\* the values of MODE
DEVELOPMENT == <<"d", "e", "v", "e", "l", "o", "p", "m", "e", "n", "t">>
PRODUCTION == <<"p", "r", "o", "d", "u", "c", "t", "i", "o", "n">>
TEST == <<"t", "e", "s", "t">>

\* string checks: .min(n, m), .max(n, m), .trim(), and the format checks
Min(n, m) == [c |-> "min", v |-> n, m |-> m]
Max(n, m) == [c |-> "max", v |-> n, m |-> m]
TrimCheck == [c |-> "trim"]
Format(name, m) == [c |-> name, m |-> m]
\* number checks: .positive(m), .nonnegative(m), .int(m), .max(n, m)
Positive(m) == [c |-> "min", v |-> 0, inclusive |-> FALSE, m |-> m]
NonNegative(m) == [c |-> "min", v |-> 0, inclusive |-> TRUE, m |-> m]
WholeNumber(m) == [c |-> "int", m |-> m]
NumMax(n, m) == [c |-> "max", v |-> n, inclusive |-> TRUE, m |-> m]

\* ZodObject.omit and ZodObject.partial
Omit(schema, mask) ==
    ZObject(SelectSeq(schema.keys, LAMBDA key : key \notin mask),
            [key \in (DOMAIN schema.shape) \ mask |-> schema.shape[key]])

Partial(schema) ==
    ZObject(schema.keys, [key \in DOMAIN schema.shape |-> ZOptional(schema.shape[key])])

Issue(path, message) == [path |-> path, message |-> message]

OK(v) == [status |-> "valid", value |-> v, issues |-> << >>]

INVALID(issues) == [status |-> "aborted", value |-> Undefined, issues |-> issues]

\* the library's default message of an invalid_type issue
InvalidTypeMessage(expected, data) ==
    IF data.t = "undefined" THEN "Required"
    ELSE "Expected " \o expected \o ", received " \o data.t

HexDigits ==
    {"0", "1", "2", "3", "4", "5", "6", "7", "8", "9",
     "a", "b", "c", "d", "e", "f", "A", "B", "C", "D", "E", "F"}

Digits == {"0", "1", "2", "3", "4", "5", "6", "7", "8", "9"}

Letters == {"a", "b", "c", "d", "e", "f", "h", "p", "s", "t", "x", "y", "z"}

\* the format checks of a string schema: .uuid() is 8-4-4-4-12 hexadecimal
\* digits, .date() is YYYY-MM-DD, .datetime() is YYYY-MM-DDTHH:MM:SSZ (UTC
\* only, as without options), .url() is what new URL(s) accepts (a scheme of
\* letters, a colon, a rest without spaces), .email() is local@domain.tld,
\* the colour pattern is /^#[0-9A-Fa-f]{6}$/, and the password pattern
\* /^(?=.*[a-z])(?=.*[A-Z])(?=.*\d)/ asks for a lower-case letter, an
\* upper-case letter and a digit (here among Letters, A-F and Digits)
MatchesFormat(name, s) ==
    LET IsDate(d) ==
            /\ Len(d) = 10
            /\ \A i \in 1..10 : IF i \in {5, 8} THEN d[i] = "-" ELSE d[i] \in Digits
    IN  CASE name = "uuid" ->
                /\ Len(s) = 36
                /\ \A i \in 1..36 :
                       IF i \in {9, 14, 19, 24} THEN s[i] = "-" ELSE s[i] \in HexDigits
          [] name = "date" -> IsDate(s)
          [] name = "datetime" ->
                /\ Len(s) = 20
                /\ IsDate(SubSeq(s, 1, 10))
                /\ s[11] = "T" /\ s[14] = ":" /\ s[17] = ":" /\ s[20] = "Z"
                /\ \A i \in {12, 13, 15, 16, 18, 19} : s[i] \in Digits
          [] name = "url" ->
                \E i \in 2..Len(s) :
                    /\ s[i] = ":"
                    /\ \A j \in 1..(i - 1) : s[j] \in Letters
                    /\ \A j \in (i + 1)..Len(s) : ~IsSpace(s[j])
          [] name = "email" ->
                \E i \in 2..Len(s) : \E j \in (i + 2)..(Len(s) - 1) :
                    /\ s[i] = "@" /\ s[j] = "."
                    /\ \A n \in (1..Len(s)) \ {i, j} : s[n] \in Letters \cup Digits
          [] name = "color" ->
                Len(s) = 7 /\ s[1] = "#" /\ \A i \in 2..7 : s[i] \in HexDigits
          [] name = "password" ->
                /\ \E i \in 1..Len(s) : s[i] \in Letters
                /\ \E i \in 1..Len(s) : s[i] \in {"A", "B", "C", "D", "E", "F"}
                /\ \E i \in 1..Len(s) : s[i] \in Digits

\* ZodString._parse after the type check: the checks run in declaration
\* order, each on the string as the earlier checks left it
RECURSIVE RunStringChecks(_, _, _)
RunStringChecks(checks, s, path) ==
    IF checks = << >>
    THEN [s |-> s, issues |-> << >>]
    ELSE LET c == Head(checks)
             bad == CASE c.c = "min" -> Len(s) < c.v
                      [] c.c = "max" -> Len(s) > c.v
                      [] c.c = "trim" -> FALSE
                      [] OTHER -> ~MatchesFormat(c.c, s)
             rest == RunStringChecks(Tail(checks), IF c.c = "trim" THEN Trim(s) ELSE s, path)
         IN  [s |-> rest.s,
              issues |-> (IF bad THEN <<Issue(path, c.m)>> ELSE << >>) \o rest.issues]

\* ZodNumber._parse after the type check; a number is n, or n + 1/2 when h
NumberIssues(checks, d, path) ==
    LET bad(c) == CASE c.c = "int" -> d.h
                    [] c.c = "min" -> IF c.inclusive THEN d.n < c.v
                                      ELSE d.n < c.v \/ (d.n = c.v /\ ~d.h)
                    [] c.c = "max" -> d.n > c.v \/ (d.n = c.v /\ d.h)
        failing == SelectSeq(checks, bad)
    IN  [i \in 1..Len(failing) |-> Issue(path, failing[i].m)]

RECURSIVE ConcatAll(_)
ConcatAll(seqs) == IF seqs = << >> THEN << >> ELSE Head(seqs) \o ConcatAll(Tail(seqs))

\* ParseStatus.mergeArray / mergeObjectSync: aborted wins over dirty over valid
MergeStatus(statuses) ==
    IF "aborted" \in statuses THEN "aborted"
    ELSE IF "dirty" \in statuses THEN "dirty"
    ELSE "valid"

\* ZodType._parse for each kind of schema; path is the list of keys and
\* indices from the root
RECURSIVE Parse(_, _, _)
Parse(schema, data, path) ==
    CASE schema.k = "string" ->
            IF data.t # "string"
            THEN INVALID(<<Issue(path, InvalidTypeMessage("string", data))>>)
            ELSE LET r == RunStringChecks(schema.checks, data.s, path)
                 IN  [status |-> IF r.issues = << >> THEN "valid" ELSE "dirty",
                      value |-> Str(r.s), issues |-> r.issues]
      [] schema.k = "number" ->
            IF data.t # "number"
            THEN INVALID(<<Issue(path, InvalidTypeMessage("number", data))>>)
            ELSE LET issues == NumberIssues(schema.checks, data, path)
                 IN  [status |-> IF issues = << >> THEN "valid" ELSE "dirty",
                      value |-> data, issues |-> issues]
      [] schema.k = "boolean" ->
            IF data.t # "boolean"
            THEN INVALID(<<Issue(path, InvalidTypeMessage("boolean", data))>>)
            ELSE OK(data)
      [] schema.k = "enum" ->
            IF data.t = "string" /\ data.s \in schema.values
            THEN OK(data)
            ELSE INVALID(<<Issue(path, schema.m)>>)
      [] schema.k = "literal" ->
            IF data = schema.value THEN OK(data)
            ELSE INVALID(<<Issue(path, "Invalid literal value")>>)
      [] schema.k = "optional" ->
            IF data = Undefined THEN OK(Undefined) ELSE Parse(schema.inner, data, path)
      [] schema.k = "nullable" ->
            IF data = Null THEN OK(Null) ELSE Parse(schema.inner, data, path)
      [] schema.k = "default" ->
            Parse(schema.inner, IF data = Undefined THEN schema.def ELSE data, path)
      [] schema.k = "union" ->
            LET rs == [i \in 1..Len(schema.options) |-> Parse(schema.options[i], data, path)]
                valid == {i \in 1..Len(rs) : rs[i].status = "valid"}
                dirty == {i \in 1..Len(rs) : rs[i].status = "dirty"}
                first(S) == CHOOSE i \in S : \A j \in S : i <= j
            IN  IF valid # {} THEN rs[first(valid)]
                ELSE IF dirty # {} THEN rs[first(dirty)]
                ELSE INVALID(<<Issue(path, "Invalid input")>>)
      [] schema.k = "array" ->
            IF data.t # "array"
            THEN INVALID(<<Issue(path, InvalidTypeMessage("array", data))>>)
            ELSE LET rs == [i \in 1..Len(data.a) |->
                               Parse(schema.item, data.a[i], Append(path, ToString(i - 1)))]
                     status == MergeStatus({rs[i].status : i \in 1..Len(rs)})
                     issues == ConcatAll([i \in 1..Len(rs) |-> rs[i].issues])
                 IN  IF status = "aborted" THEN INVALID(issues)
                     ELSE [status |-> status, issues |-> issues,
                           value |-> Arr([i \in 1..Len(rs) |-> rs[i].value])]
      [] schema.k = "refine" ->
            \* ZodEffects with a refinement: not run when the inner parse
            \* aborted; the check compares two keys of the parsed object
            LET inner == Parse(schema.inner, data, path)
            IN  IF inner.status = "aborted" THEN inner
                ELSE IF inner.value.o[schema.same[1]] = inner.value.o[schema.same[2]] THEN inner
                ELSE [status |-> "dirty", value |-> inner.value,
                      issues |-> Append(inner.issues, Issue(path \o schema.path, schema.m))]
      [] schema.k = "object" ->
            IF data.t # "object"
            THEN INVALID(<<Issue(path, InvalidTypeMessage("object", data))>>)
            ELSE LET keys == schema.keys
                     given == DOMAIN data.o
                     rs == [key \in DOMAIN schema.shape |->
                               Parse(schema.shape[key],
                                     IF key \in given THEN data.o[key] ELSE Undefined,
                                     Append(path, key))]
                     status == MergeStatus({rs[key].status : key \in DOMAIN rs})
                     issues == ConcatAll([i \in 1..Len(keys) |-> rs[keys[i]].issues])
                     \* keys outside the shape are stripped; a key stays when it
                     \* has a value or was given (even as undefined)
                     kept == {key \in DOMAIN rs : rs[key].value # Undefined \/ key \in given}
                 IN  IF status = "aborted" THEN INVALID(issues)
                     ELSE [status |-> status, issues |-> issues,
                           value |-> Obj([key \in kept |-> rs[key].value])]

\* ZodType.safeParse
safeParse(schema, data) ==
    LET r == Parse(schema, data, << >>)
    IN  IF r.status = "valid"
        THEN [success |-> TRUE, data |-> r.value]
        ELSE [success |-> FALSE, issues |-> r.issues]

(***************************************************************************)
(* Validation core (utils.ts:21-65, 139-171)                               *)
(***************************************************************************)
formatZodErrors(issues) ==
    [i \in 1..Len(issues) |-> ValidationError(Join(issues[i].path, "."), issues[i].message)]

\* formatErrorMessage without the case of a single error
formatErrorMessage_AlwaysList(errors) ==
    IF Len(errors) = 0 THEN "Validation failed"
    ELSE "Validation failed:\n"
         \o Join([i \in 1..Len(errors) |-> "- " \o errors[i].field \o ": " \o errors[i].message],
                 "\n")

formatErrorMessage(errors) ==
    IF Len(errors) = 0 THEN "Validation failed"
    ELSE IF Len(errors) = 1 THEN errors[1].message
    ELSE "Validation failed:\n"
         \o Join([i \in 1..Len(errors) |-> "- " \o errors[i].field \o ": " \o errors[i].message],
                 "\n")

\* validate leaving the parsed value on a failure next to its errors
validate_KeepsData(schema, data) ==
    LET result == safeParse(schema, data)
    IN  IF result.success
        THEN Success(result.data)
        ELSE [success |-> FALSE, data |-> data, errors |-> formatZodErrors(result.issues)]

validate(schema, data) ==
    LET result == safeParse(schema, data)
    IN  IF result.success
        THEN Success(result.data)
        ELSE Failure(formatZodErrors(result.issues))

\* the outcome of a call that may throw
Return(value) == [throws |-> FALSE, value |-> value]

Throw(message) == [throws |-> TRUE, message |-> message]

\* validateOrThrow throwing the first error's message only
validateOrThrow_FirstMessage(schema, data) ==
    LET result == validate(schema, data)
    IN  IF ~result.success
        THEN Throw(result.errors[1].message)
        ELSE Return(result.data)

\* lines 61-64 of validateOrThrow, on the result of validate
ThrowUnlessSuccess(result) ==
    IF ~result.success
    THEN Throw(formatErrorMessage(result.errors))
    ELSE Return(result.data)

validateOrThrow(schema, data) == ThrowUnlessSuccess(validate(schema, data))

(***************************************************************************)
(* JSON.parse on a character sequence, for texts without escape sequences  *)
(* and with numbers that are integers or end in .5                         *)
(***************************************************************************)
JsonFail == [ok |-> FALSE]

JsonOk(v, next) == [ok |-> TRUE, v |-> v, next |-> next]

RECURSIVE SkipSpace(_, _)
SkipSpace(s, i) == IF i <= Len(s) /\ IsSpace(s[i]) THEN SkipSpace(s, i + 1) ELSE i

StartsWith(s, i, word) ==
    i + Len(word) - 1 <= Len(s) /\ SubSeq(s, i, i + Len(word) - 1) = word

RECURSIVE DigitsEnd(_, _)
DigitsEnd(s, i) == IF i <= Len(s) /\ s[i] \in Digits THEN DigitsEnd(s, i + 1) ELSE i

RECURSIVE Decimal(_)
Decimal(ds) ==
    IF ds = << >> THEN 0
    ELSE 10 * Decimal(SubSeq(ds, 1, Len(ds) - 1))
         + (CHOOSE d \in 0..9 : ToString(d) = ds[Len(ds)])

JsonNumber(s, i) ==
    LET neg == i <= Len(s) /\ s[i] = "-"
        a == IF neg THEN i + 1 ELSE i
        b == DigitsEnd(s, a)
        half == StartsWith(s, b, <<".", "5">>)
        d == Decimal(SubSeq(s, a, b - 1))
    IN  IF b = a \/ (b - a > 1 /\ s[a] = "0") THEN JsonFail
        ELSE JsonOk(IF half THEN NumHalf(IF neg THEN 0 - d - 1 ELSE d)
                    ELSE Num(IF neg THEN 0 - d ELSE d),
                    IF half THEN b + 2 ELSE b)

\* the index of the next double quote at or after i, or 0
RECURSIVE QuoteAt(_, _)
QuoteAt(s, i) == IF i > Len(s) THEN 0 ELSE IF s[i] = "\"" THEN i ELSE QuoteAt(s, i + 1)

\* an object from its members in text order: a repeated key keeps its last value
ObjectOf(members) ==
    LET keys == {members[n].key : n \in 1..Len(members)}
        last(key) == CHOOSE n \in 1..Len(members) :
                         /\ members[n].key = key
                         /\ \A m \in (n + 1)..Len(members) : members[m].key # key
    IN  Obj([key \in keys |-> members[last(key)].v])

RECURSIVE JsonValue(_, _)
RECURSIVE JsonElements(_, _, _)
RECURSIVE JsonMembers(_, _, _)

JsonValue(s, i0) ==
    LET i == SkipSpace(s, i0)
    IN  IF i > Len(s) THEN JsonFail
        ELSE IF StartsWith(s, i, <<"n", "u", "l", "l">>) THEN JsonOk(Null, i + 4)
        ELSE IF StartsWith(s, i, <<"t", "r", "u", "e">>) THEN JsonOk(Bool(TRUE), i + 4)
        ELSE IF StartsWith(s, i, <<"f", "a", "l", "s", "e">>) THEN JsonOk(Bool(FALSE), i + 5)
        ELSE IF s[i] = "\"" THEN
            LET j == QuoteAt(s, i + 1)
            IN  IF j = 0 THEN JsonFail ELSE JsonOk(Str(SubSeq(s, i + 1, j - 1)), j + 1)
        ELSE IF s[i] = "[" THEN JsonElements(s, i + 1, << >>)
        ELSE IF s[i] = "{" THEN JsonMembers(s, i + 1, << >>)
        ELSE JsonNumber(s, i)

JsonElements(s, i0, acc) ==
    LET i == SkipSpace(s, i0)
    IN  IF acc = << >> /\ i <= Len(s) /\ s[i] = "]" THEN JsonOk(Arr(<< >>), i + 1)
        ELSE LET e == JsonValue(s, i)
                 j == SkipSpace(s, e.next)
             IN  IF ~e.ok \/ j > Len(s) THEN JsonFail
                 ELSE IF s[j] = "]" THEN JsonOk(Arr(Append(acc, e.v)), j + 1)
                 ELSE IF s[j] = "," THEN JsonElements(s, j + 1, Append(acc, e.v))
                 ELSE JsonFail

JsonMembers(s, i0, acc) ==
    LET i == SkipSpace(s, i0)
    IN  IF acc = << >> /\ i <= Len(s) /\ s[i] = "}" THEN JsonOk(Obj(<< >>), i + 1)
        ELSE IF i > Len(s) \/ s[i] # "\"" \/ QuoteAt(s, i + 1) = 0 THEN JsonFail
        ELSE LET q == QuoteAt(s, i + 1)
                 key == Join(SubSeq(s, i + 1, q - 1), "")
                 c == SkipSpace(s, q + 1)
                 e == JsonValue(s, c + 1)
                 j == SkipSpace(s, e.next)
                 members == Append(acc, [key |-> key, v |-> e.v])
             IN  IF c > Len(s) \/ s[c] # ":" THEN JsonFail
                 ELSE IF ~e.ok \/ j > Len(s) THEN JsonFail
                 ELSE IF s[j] = "}" THEN JsonOk(ObjectOf(members), j + 1)
                 ELSE IF s[j] = "," THEN JsonMembers(s, j + 1, members)
                 ELSE JsonFail

JSONParse(text) ==
    LET r == JsonValue(text, 1)
    IN  IF r.ok /\ SkipSpace(text, r.next) > Len(text) THEN r ELSE JsonFail

\* parseJSON (utils.ts:189-208): a text JSON.parse rejects is reported as one
\* error on the field "json"
parseJSON(schema, json) ==
    LET parsed == JSONParse(json)
    IN  IF parsed.ok
        THEN validate(schema, parsed.v)
        ELSE Failure(<<ValidationError("json", "Invalid JSON format")>>)

validatePartial(schema, data) == validate(Partial(schema), data)

validateArray(itemSchema, data) == validate(ZArray(itemSchema), data)

validateArrayOrThrow(itemSchema, data) == validateOrThrow(ZArray(itemSchema), data)

\* toFormErrors where the first error of a field stays
RECURSIVE toFormErrors_FirstWins(_)
toFormErrors_FirstWins(errors) ==
    IF errors = << >> THEN << >>
    ELSE LET formErrors == toFormErrors_FirstWins(SubSeq(errors, 1, Len(errors) - 1))
             error == errors[Len(errors)]
         IN  [field \in (DOMAIN formErrors) \cup {error.field} |->
                 IF field \in DOMAIN formErrors THEN formErrors[field]
                 ELSE [message |-> error.message]]

\* the loop formErrors[error.field] = { message: error.message }: formErrors
\* after the errors before the last one, then the assignment for the last one
RECURSIVE toFormErrors(_)
toFormErrors(errors) ==
    IF errors = << >> THEN << >>
    ELSE LET formErrors == toFormErrors(SubSeq(errors, 1, Len(errors) - 1))
             error == errors[Len(errors)]
         IN  [field \in (DOMAIN formErrors) \cup {error.field} |->
                 IF field = error.field THEN [message |-> error.message]
                 ELSE formErrors[field]]

(***************************************************************************)
(* Environment validation and the backend client (utils.ts:118-134,        *)
(* supabase.ts:15-106)                                                     *)
(***************************************************************************)
\* createEnvSchema with both variables optional whatever the mode
createEnvSchema_AlwaysOptional(mode) ==
    ZObject(<<"VITE_SUPABASE_URL", "VITE_SUPABASE_ANON_KEY", "MODE">>,
        [VITE_SUPABASE_URL |-> ZOptional(ZString(<< >>)),
         VITE_SUPABASE_ANON_KEY |-> ZOptional(ZString(<< >>)),
         MODE |-> ZOptional(ZEnum({DEVELOPMENT, PRODUCTION, TEST},
                     "Invalid enum value. Expected 'development' | 'production' | 'test', received '"
                         \o (IF mode.t = "string" THEN Join(mode.s, "") ELSE mode.t) \o "'"))])

\* the message of the MODE issue quotes the value received, which is mode
createEnvSchema(mode) ==
    LET isTestMode == mode = Str(TEST)
    IN  ZObject(<<"VITE_SUPABASE_URL", "VITE_SUPABASE_ANON_KEY", "MODE">>,
            [VITE_SUPABASE_URL |->
                 IF isTestMode THEN ZOptional(ZString(<< >>))
                 ELSE ZString(<<Format("url", "Invalid Supabase URL. Please set VITE_SUPABASE_URL in your .env file.")>>),
             VITE_SUPABASE_ANON_KEY |->
                 IF isTestMode THEN ZOptional(ZString(<< >>))
                 ELSE ZString(<<Min(1, "Supabase anon key is required. Please set VITE_SUPABASE_ANON_KEY in your .env file.")>>),
             MODE |-> ZOptional(ZEnum({DEVELOPMENT, PRODUCTION, TEST},
                         "Invalid enum value. Expected 'development' | 'production' | 'test', received '"
                             \o (IF mode.t = "string" THEN Join(mode.s, "") ELSE mode.t) \o "'"))])

\* validateEnv whose message carries the first error only
validateEnv_FirstErrorOnly(schema, env) ==
    LET result == safeParse(schema, env)
    IN  IF ~result.success
        THEN LET errors == formatZodErrors(result.issues)
             IN  Throw("Environment validation failed:\n"
                       \o "- " \o errors[1].field \o ": " \o errors[1].message)
        ELSE Return(result.data)

validateEnv(schema, env) ==
    LET result == safeParse(schema, env)
    IN  IF ~result.success
        THEN LET errors == formatZodErrors(result.issues)
             IN  Throw("Environment validation failed:\n"
                       \o Join([i \in 1..Len(errors) |->
                                   "- " \o errors[i].field \o ": " \o errors[i].message], "\n"))
        ELSE Return(result.data)

(***************************************************************************)
(* Sanitization (utils.ts:84-95)                                           *)
(***************************************************************************)
\* s.replace(/c/g, entity) for a one-character pattern
RECURSIVE ReplaceAll(_, _, _)
ReplaceAll(s, c, entity) ==
    IF s = << >> THEN << >>
    ELSE (IF Head(s) = c THEN entity ELSE <<Head(s)>>) \o ReplaceAll(Tail(s), c, entity)

\* sanitizeString with the ampersand replaced last instead of first
sanitizeString_AmpersandLast(input) ==
    LET lt == ReplaceAll(input, "<", <<"&", "l", "t", ";">>)
        gt == ReplaceAll(lt, ">", <<"&", "g", "t", ";">>)
        quot == ReplaceAll(gt, "\"", <<"&", "q", "u", "o", "t", ";">>)
        apos == ReplaceAll(quot, "'", <<"&", "#", "x", "2", "7", ";">>)
        slash == ReplaceAll(apos, "/", <<"&", "#", "x", "2", "F", ";">>)
        escaped == ReplaceAll(slash, "&", <<"&", "a", "m", "p", ";">>)
    IN  Trim(escaped)

\* the six replacements in the order of the source, then trim
sanitizeString(input) ==
    LET amp == ReplaceAll(input, "&", <<"&", "a", "m", "p", ";">>)
        lt == ReplaceAll(amp, "<", <<"&", "l", "t", ";">>)
        gt == ReplaceAll(lt, ">", <<"&", "g", "t", ";">>)
        quot == ReplaceAll(gt, "\"", <<"&", "q", "u", "o", "t", ";">>)
        apos == ReplaceAll(quot, "'", <<"&", "#", "x", "2", "7", ";">>)
        escaped == ReplaceAll(apos, "/", <<"&", "#", "x", "2", "F", ";">>)
    IN  Trim(escaped)

(***************************************************************************)
(* Schema registry (the schema definitions, supabase.ts:108-509)           *)
(***************************************************************************)
uuidSchema == ZString(<<Format("uuid", "Invalid UUID format")>>)
emailSchema == ZString(<<Format("email", "Invalid email address")>>)
urlSchema == ZOptional(ZString(<<Format("url", "Invalid URL format")>>))
dateStringSchema == ZString(<<Format("datetime", "Invalid datetime format")>>)
positiveNumberSchema == ZNumber(<<Positive("Must be a positive number")>>)
nonNegativeNumberSchema == ZNumber(<<NonNegative("Must be non-negative")>>)

\* z.string().min(1, required).max(n, tooLong).trim()
RequiredText(n, required, tooLong) == ZString(<<Min(1, required), Max(n, tooLong), TrimCheck>>)

\* z.string().max(n, tooLong).optional()
OptionalText(n, tooLong) == ZOptional(ZString(<<Max(n, tooLong)>>))

\* z.array(z.string().max(n)).default([])
TextList(n) ==
    ZDefault(ZArray(ZString(<<Max(n, "String must contain at most " \o ToString(n) \o " character(s)")>>)),
             Arr(<< >>))

\* positiveNumberSchema.int(m)
PositiveInt(m) == ZNumber(<<Positive("Must be a positive number"), WholeNumber(m)>>)

ServerFields == {"id", "created_at", "updated_at"}

ingredientSchema ==
    ZObject(<<"id", "user_id", "name", "quantity", "unit", "category", "expiration_date",
              "notes", "low_stock_threshold", "created_at", "updated_at">>,
        [id |-> uuidSchema,
         user_id |-> uuidSchema,
         name |-> RequiredText(255, "Ingredient name is required", "Ingredient name too long"),
         quantity |-> positiveNumberSchema,
         unit |-> RequiredText(50, "Unit is required", "Unit name too long"),
         category |-> RequiredText(100, "Category is required", "Category name too long"),
         expiration_date |-> ZOptional(ZString(<<Format("date", "Invalid date format")>>)),
         notes |-> OptionalText(1000, "Notes too long"),
         low_stock_threshold |-> ZOptional(nonNegativeNumberSchema),
         created_at |-> dateStringSchema,
         updated_at |-> dateStringSchema])

recipeSchema ==
    ZObject(<<"id", "user_id", "title", "description", "image_url", "prep_time", "cook_time",
              "servings", "difficulty", "cuisine_type", "created_at", "updated_at">>,
        [id |-> uuidSchema,
         user_id |-> uuidSchema,
         title |-> RequiredText(255, "Recipe title is required", "Recipe title too long"),
         description |->
             RequiredText(5000, "Recipe description is required", "Recipe description too long"),
         image_url |-> ZUnion(<<ZString(<<Format("url", "Invalid image URL")>>),
                                ZLiteral(Str(<< >>))>>),
         prep_time |-> nonNegativeNumberSchema,
         cook_time |-> nonNegativeNumberSchema,
         servings |-> PositiveInt("Servings must be a whole number"),
         difficulty |-> ZEnum({<<"E", "a", "s", "y">>, <<"M", "e", "d", "i", "u", "m">>, <<"H", "a", "r", "d">>}, "Difficulty must be Easy, Medium, or Hard"),
         cuisine_type |-> OptionalText(100, "Cuisine type too long"),
         created_at |-> dateStringSchema,
         updated_at |-> dateStringSchema])

recipeIngredientSchema ==
    ZObject(<<"id", "recipe_id", "ingredient_name", "quantity", "unit", "notes">>,
        [id |-> uuidSchema,
         recipe_id |-> uuidSchema,
         ingredient_name |->
             RequiredText(255, "Ingredient name is required", "Ingredient name too long"),
         quantity |-> positiveNumberSchema,
         unit |-> RequiredText(50, "Unit is required", "Unit name too long"),
         notes |-> OptionalText(500, "Notes too long")])

recipeInstructionSchema ==
    ZObject(<<"id", "recipe_id", "step_number", "instruction">>,
        [id |-> uuidSchema,
         recipe_id |-> uuidSchema,
         step_number |-> PositiveInt("Step number must be a whole number"),
         instruction |-> RequiredText(2000, "Instruction is required", "Instruction too long")])

shoppingListSchema ==
    ZObject(<<"id", "user_id", "name", "description", "created_at", "updated_at">>,
        [id |-> uuidSchema,
         user_id |-> uuidSchema,
         name |-> RequiredText(255, "Shopping list name is required", "Shopping list name too long"),
         description |-> OptionalText(1000, "Description too long"),
         created_at |-> dateStringSchema,
         updated_at |-> dateStringSchema])

shoppingListItemSchema ==
    ZObject(<<"id", "shopping_list_id", "name", "quantity", "unit", "category", "is_purchased",
              "notes", "recipe_id", "created_at", "updated_at">>,
        [id |-> uuidSchema,
         shopping_list_id |-> uuidSchema,
         name |-> RequiredText(255, "Item name is required", "Item name too long"),
         quantity |-> positiveNumberSchema,
         unit |-> RequiredText(50, "Unit is required", "Unit name too long"),
         category |-> RequiredText(100, "Category is required", "Category name too long"),
         is_purchased |-> ZBoolean,
         notes |-> OptionalText(500, "Notes too long"),
         recipe_id |-> ZOptional(uuidSchema),
         created_at |-> dateStringSchema,
         updated_at |-> dateStringSchema])

userProfileSchema ==
    ZObject(<<"id", "user_id", "full_name", "bio", "avatar_color", "onboarding_completed",
              "avatar_url", "created_at", "updated_at">>,
        [id |-> uuidSchema,
         user_id |-> uuidSchema,
         full_name |-> RequiredText(255, "Full name is required", "Full name too long"),
         bio |-> ZString(<<Max(1000, "Bio too long"), TrimCheck>>),
         avatar_color |-> ZString(<<Format("color", "Invalid color format (use #RRGGBB)")>>),
         onboarding_completed |-> ZBoolean,
         avatar_url |-> urlSchema,
         created_at |-> dateStringSchema,
         updated_at |-> dateStringSchema])

userPreferencesSchema ==
    ZObject(<<"id", "user_id", "dietary_restrictions", "allergies", "preferred_cuisines",
              "cooking_skill_level", "measurement_units", "family_size", "kitchen_equipment",
              "created_at", "updated_at", "notification_enabled", "expiration_threshold_days",
              "inventory_threshold">>,
        [id |-> uuidSchema,
         user_id |-> uuidSchema,
         dietary_restrictions |-> TextList(100),
         allergies |-> TextList(100),
         preferred_cuisines |-> TextList(100),
         cooking_skill_level |->
             ZEnum({<<"B", "e", "g", "i", "n", "n", "e", "r">>, <<"I", "n", "t", "e", "r", "m", "e", "d", "i", "a", "t", "e">>, <<"A", "d", "v", "a", "n", "c", "e", "d">>, <<"E", "x", "p", "e", "r", "t">>},
                   "Skill level must be Beginner, Intermediate, Advanced, or Expert"),
         measurement_units |-> ZEnum({<<"M", "e", "t", "r", "i", "c">>, <<"I", "m", "p", "e", "r", "i", "a", "l">>}, "Measurement units must be Metric or Imperial"),
         family_size |-> PositiveInt("Family size must be a whole number"),
         kitchen_equipment |-> TextList(100),
         created_at |-> dateStringSchema,
         updated_at |-> dateStringSchema,
         notification_enabled |-> ZDefault(ZBoolean, Bool(TRUE)),
         expiration_threshold_days |->
             ZNumber(<<Positive("Must be a positive number"),
                       WholeNumber("Expiration threshold must be a whole number"),
                       NumMax(365, "Expiration threshold too high")>>),
         inventory_threshold |-> nonNegativeNumberSchema])

leftoverSchema ==
    ZObject(<<"id", "user_id", "name", "quantity", "unit", "expiration_date",
              "source_recipe_id", "notes", "created_at", "updated_at">>,
        [id |-> uuidSchema,
         user_id |-> uuidSchema,
         name |-> RequiredText(255, "Leftover name is required", "Leftover name too long"),
         quantity |-> positiveNumberSchema,
         unit |-> RequiredText(50, "Unit is required", "Unit name too long"),
         expiration_date |-> ZOptional(ZString(<<Format("date", "Invalid date format")>>)),
         source_recipe_id |-> ZOptional(uuidSchema),
         notes |-> OptionalText(1000, "Notes too long"),
         created_at |-> dateStringSchema,
         updated_at |-> dateStringSchema])

conversationSchema ==
    ZObject(<<"id", "user_id", "created_at", "updated_at", "title">>,
        [id |-> uuidSchema,
         user_id |-> uuidSchema,
         created_at |-> dateStringSchema,
         updated_at |-> dateStringSchema,
         title |-> ZNullable(ZString(<<Max(255, "Title too long")>>))])

chatMessageSchema ==
    ZObject(<<"id", "conversation_id", "sender", "content", "timestamp", "suggestions",
              "recipes">>,
        [id |-> uuidSchema,
         conversation_id |-> uuidSchema,
         sender |-> ZEnum({<<"u", "s", "e", "r">>, <<"a", "i">>}, "Sender must be 'user' or 'ai'"),
         content |-> RequiredText(10000, "Message content is required", "Message content too long"),
         timestamp |-> dateStringSchema,
         suggestions |->
             ZOptional(ZNullable(ZArray(ZString(
                 <<Max(500, "String must contain at most 500 character(s)")>>)))),
         recipes |-> ZOptional(ZNullable(ZArray(recipeSchema)))])

\* the sign-up form: an object refined by password === confirmPassword, the
\* issue of the refinement put under confirmPassword
signUpSchema ==
    [k |-> "refine",
     inner |-> ZObject(<<"email", "password", "confirmPassword", "fullName">>,
                  [email |-> emailSchema,
                   password |-> ZString(<<Min(8, "Password must be at least 8 characters"),
                                          Max(128, "Password too long"),
                                          Format("password", "Password must contain uppercase, lowercase, and number")>>),
                   confirmPassword |-> ZString(<< >>),
                   fullName |-> ZString(<<Min(2, "Full name must be at least 2 characters"),
                                          Max(255, "Full name too long"), TrimCheck>>)]),
     same |-> <<"password", "confirmPassword">>,
     m |-> "Passwords don't match",
     path |-> <<"confirmPassword">>]

\* the entities of the data-access layer, with the keys each Insert schema
\* omits and the immutable ownership key each Update schema omits
Entities ==
    {"ingredient", "recipe", "recipeIngredient", "recipeInstruction", "shoppingList",
     "shoppingListItem", "userProfile", "userPreferences", "leftover", "conversation",
     "chatMessage"}

ReadSchema(e) ==
    CASE e = "ingredient" -> ingredientSchema
      [] e = "recipe" -> recipeSchema
      [] e = "recipeIngredient" -> recipeIngredientSchema
      [] e = "recipeInstruction" -> recipeInstructionSchema
      [] e = "shoppingList" -> shoppingListSchema
      [] e = "shoppingListItem" -> shoppingListItemSchema
      [] e = "userProfile" -> userProfileSchema
      [] e = "userPreferences" -> userPreferencesSchema
      [] e = "leftover" -> leftoverSchema
      [] e = "conversation" -> conversationSchema
      [] e = "chatMessage" -> chatMessageSchema

\* the keys .omit() removes to derive the Insert schema
InsertOmits(e) ==
    CASE e \in {"recipeIngredient", "recipeInstruction"} -> {"id"}
      [] e = "chatMessage" -> {"id", "timestamp"}
      [] OTHER -> ServerFields

InsertSchema(e) == Omit(ReadSchema(e), InsertOmits(e))

\* the entities with an Update schema, and the ownership key it omits
Updatable ==
    {"ingredient", "recipe", "shoppingList", "shoppingListItem", "userProfile",
     "userPreferences", "leftover"}

OwnershipKey(e) == IF e = "shoppingListItem" THEN "shopping_list_id" ELSE "user_id"

\* an Update schema that keeps the ownership key
UpdateSchema_KeepsOwnership(e) == Partial(InsertSchema(e))

UpdateSchema(e) == Omit(Partial(InsertSchema(e)), {OwnershipKey(e)})

(***************************************************************************)
(* Sample rows and the inputs drawn for validation                         *)
(***************************************************************************)
Repeat(c, n) == [i \in 1..n |-> c]

Uuid(c) == [i \in 1..36 |-> IF i \in {9, 14, 19, 24} THEN "-" ELSE c]

SampleTimestamp == <<"2", "0", "2", "6", "-", "0", "1", "-", "0", "2", "T", "0", "3", ":", "0", "4", ":", "0", "5", "Z">>

SampleDate == SubSeq(SampleTimestamp, 1, 10)

\* a row of each table that satisfies the entity's Read schema
SampleRow(e) ==
    CASE e = "ingredient" ->
            [id |-> Str(Uuid("a")), user_id |-> Str(Uuid("b")), name |-> Str(<<"F", "l", "o", "u", "r">>),
             quantity |-> Num(2), unit |-> Str(<<"k", "g">>), category |-> Str(<<"B", "a", "k", "i", "n", "g">>),
             expiration_date |-> Str(SampleDate), notes |-> Str(<<"d", "r", "y">>),
             low_stock_threshold |-> Num(0),
             created_at |-> Str(SampleTimestamp), updated_at |-> Str(SampleTimestamp)]
      [] e = "recipe" ->
            [id |-> Str(Uuid("a")), user_id |-> Str(Uuid("b")), title |-> Str(<<"P", "i", "e">>),
             description |-> Str(<<"B", "a", "k", "e">>), image_url |-> Str(<< >>), prep_time |-> Num(0),
             cook_time |-> Num(30), servings |-> Num(4), difficulty |-> Str(<<"E", "a", "s", "y">>),
             cuisine_type |-> Str(<<"T", "h", "a", "i">>),
             created_at |-> Str(SampleTimestamp), updated_at |-> Str(SampleTimestamp)]
      [] e = "recipeIngredient" ->
            [id |-> Str(Uuid("a")), recipe_id |-> Str(Uuid("c")),
             ingredient_name |-> Str(<<"F", "l", "o", "u", "r">>), quantity |-> Num(1), unit |-> Str(<<"k", "g">>),
             notes |-> Str(<<"d", "r", "y">>)]
      [] e = "recipeInstruction" ->
            [id |-> Str(Uuid("a")), recipe_id |-> Str(Uuid("c")), step_number |-> Num(1),
             instruction |-> Str(<<"B", "a", "k", "e">>)]
      [] e = "shoppingList" ->
            [id |-> Str(Uuid("a")), user_id |-> Str(Uuid("b")), name |-> Str(<<"P", "i", "e">>),
             description |-> Str(<<"d", "r", "y">>),
             created_at |-> Str(SampleTimestamp), updated_at |-> Str(SampleTimestamp)]
      [] e = "shoppingListItem" ->
            [id |-> Str(Uuid("a")), shopping_list_id |-> Str(Uuid("d")), name |-> Str(<<"F", "l", "o", "u", "r">>),
             quantity |-> Num(1), unit |-> Str(<<"k", "g">>), category |-> Str(<<"B", "a", "k", "i", "n", "g">>),
             is_purchased |-> Bool(FALSE), notes |-> Str(<<"d", "r", "y">>), recipe_id |-> Str(Uuid("c")),
             created_at |-> Str(SampleTimestamp), updated_at |-> Str(SampleTimestamp)]
      [] e = "userProfile" ->
            [id |-> Str(Uuid("a")), user_id |-> Str(Uuid("b")), full_name |-> Str(<<"P", "i", "e">>),
             bio |-> Str(<< >>), avatar_color |-> Str(<<"#", "a", "1", "B", "2", "c", "3">>),
             onboarding_completed |-> Bool(TRUE), avatar_url |-> Str(<<"h", "t", "t", "p", "s", ":", "/", "/", "a", ".", "d", "e", "/", "x">>),
             created_at |-> Str(SampleTimestamp), updated_at |-> Str(SampleTimestamp)]
      [] e = "userPreferences" ->
            [id |-> Str(Uuid("a")), user_id |-> Str(Uuid("b")),
             dietary_restrictions |-> Arr(<<Str(<<"d", "r", "y">>)>>), allergies |-> Arr(<< >>),
             preferred_cuisines |-> Arr(<<Str(<<"T", "h", "a", "i">>)>>),
             cooking_skill_level |-> Str(<<"E", "x", "p", "e", "r", "t">>), measurement_units |-> Str(<<"M", "e", "t", "r", "i", "c">>),
             family_size |-> Num(2), kitchen_equipment |-> Arr(<< >>),
             created_at |-> Str(SampleTimestamp), updated_at |-> Str(SampleTimestamp),
             notification_enabled |-> Bool(FALSE), expiration_threshold_days |-> Num(365),
             inventory_threshold |-> Num(0)]
      [] e = "leftover" ->
            [id |-> Str(Uuid("a")), user_id |-> Str(Uuid("b")), name |-> Str(<<"P", "i", "e">>),
             quantity |-> Num(1), unit |-> Str(<<"k", "g">>), expiration_date |-> Str(SampleDate),
             source_recipe_id |-> Str(Uuid("c")), notes |-> Str(<<"d", "r", "y">>),
             created_at |-> Str(SampleTimestamp), updated_at |-> Str(SampleTimestamp)]
      [] e = "conversation" ->
            [id |-> Str(Uuid("a")), user_id |-> Str(Uuid("b")),
             created_at |-> Str(SampleTimestamp), updated_at |-> Str(SampleTimestamp),
             title |-> Null]
      [] e = "chatMessage" ->
            [id |-> Str(Uuid("a")), conversation_id |-> Str(Uuid("e")), sender |-> Str(<<"a", "i">>),
             content |-> Str(<<"B", "a", "k", "e">>), timestamp |-> Str(SampleTimestamp),
             suggestions |-> Null, recipes |-> Arr(<< >>)]

\* the values a caller or the backend may put in a field
FieldPool ==
    { Undefined, Null, NaN, Bool(FALSE), Num(0), Num(-1), NumHalf(1), Num(366),
      Str(<< >>), Str(<<" ">>), Str(<<" ", "a", " ">>), Str(Repeat("a", 256)),
      Str(Uuid("f")), Arr(<< >>), Arr(<<Num(1)>>) }

Restrict(f, keys) == [key \in (DOMAIN f) \cap keys |-> f[key]]

\* objects near a sample: the sample, the sample with one field replaced or
\* removed, and the sample with every field replaced by the same value
Near(sample) ==
    {Obj(sample)}
        \cup {Obj([sample EXCEPT ![key] = v]) : key \in DOMAIN sample, v \in FieldPool}
        \cup {Obj(Restrict(sample, (DOMAIN sample) \ {key})) : key \in DOMAIN sample}
        \cup {Obj([key \in DOMAIN sample |-> v]) : v \in FieldPool}

\* the schemas of the registry, by kind and entity
SchemaNames ==
    {<<kind, e>> : kind \in {"read", "insert"}, e \in Entities}
        \cup {<<"update", e>> : e \in Updatable}

SchemaOf(name) ==
    CASE name[1] = "read" -> ReadSchema(name[2])
      [] name[1] = "insert" -> InsertSchema(name[2])
      [] name[1] = "update" -> UpdateSchema(name[2])
      [] name[1] = "form" -> signUpSchema

\* the inputs offered to a schema: objects near the part of the sample row
\* the schema declares, the full row (which carries keys the Insert and Update
\* schemas omit), and values that are no objects
\* and, for the sign-up form, every combination of a good, a bad and a missing
\* value of each field
Inputs(name) ==
    IF name[1] = "form"
    THEN {Obj([email |-> email, password |-> password,
               confirmPassword |-> confirmPassword, fullName |-> fullName]) :
              email \in {Str(<<"a", "@", "b", ".", "c">>), Str(<<"x">>), Undefined},
              password \in {Str(<<"A", "b", "c", "d", "e", "f", "1", "2">>), Str(<<"a", "b">>), Undefined},
              confirmPassword \in {Str(<<"A", "b", "c", "d", "e", "f", "1", "2">>), Str(<<"a", "b">>), Undefined},
              fullName \in {Str(<<"A", "l">>), Str(<<"a">>), Undefined}}
    ELSE LET row == SampleRow(name[2])
         IN  Near(Restrict(row, DOMAIN SchemaOf(name).shape)) \cup {Obj(row), Obj(<< >>)} \cup FieldPool

(***************************************************************************)
(* Bounds and the inputs of the aggregation machine                        *)
(***************************************************************************)
MaxResults == 3
MaxErrors == 2

ErrorPool ==
    { ValidationError("email", "Invalid email"),
      ValidationError("password", "Password too short") }

DataPool == { Undefined, Str(<<"a">>), Str(<<"b">>) }

SeqsUpTo(S, n) == UNION { [1..k -> S] : k \in 0..n }

ResultInputs ==
    { Success(d) : d \in DataPool } \cup { Failure(es) : es \in SeqsUpTo(ErrorPool, MaxErrors) }

(***************************************************************************)
(* The aggregation machine: a caller assembles results and aggregates them *)
(***************************************************************************)
NoCall == [fn |-> "none"]

\* the state of the first render of the Recipes page (Recipes.tsx 68, 93, 94)
FirstRender == [minMatch |-> 70, maxMissing |-> 3, itemsToShow |-> 12]

\* const _cache = {}, the page not mounted, nothing running, nothing written
InitCache ==
    /\ cache = << >>
    /\ page = [mounted |-> FALSE, minMatch |-> FirstRender.minMatch,
               maxMissing |-> FirstRender.maxMissing, itemsToShow |-> FirstRender.itemsToShow]
    /\ loader = [pc |-> 4, minMatch |-> FirstRender.minMatch,
                 maxMissing |-> FirstRender.maxMissing, itemsToShow |-> FirstRender.itemsToShow]
    /\ form = [pc |-> "idle", minMatch |-> FirstRender.minMatch,
               maxMissing |-> FirstRender.maxMissing, itemsToShow |-> FirstRender.itemsToShow,
               write |-> 0]
    /\ written = 0

InitCollect ==
    /\ results = << >>
    /\ merged = << >>
    /\ call = NoCall
    /\ ret = NoCall
    /\ trace = << >>
    /\ now = 0
    /\ timeoutId = 0
    /\ timers = {}
    /\ history = << >>
    /\ pantry = << >>
    /\ stocked = 0
    /\ shoppers = << >>
    /\ InitCache

AddResult ==
    /\ Len(results) < MaxResults
    /\ \E r \in ResultInputs : results' = Append(results, r)
    /\ merged' = << >>
    /\ UNCHANGED <<timerVars, pantryVars, cacheVars, call, ret, trace>>

CallCollect ==
    /\ merged = << >>
    /\ merged' = <<collectValidationErrors(results)>>
    /\ UNCHANGED <<timerVars, pantryVars, cacheVars, results, call, ret, trace>>

CallMerge ==
    /\ merged = << >>
    /\ merged' = <<mergeValidationResults(results)>>
    /\ UNCHANGED <<timerVars, pantryVars, cacheVars, results, call, ret, trace>>

NextCollect == AddResult \/ CallCollect \/ CallMerge

SpecCollect == InitCollect /\ [][NextCollect]_vars

(***************************************************************************)
(* The validation machine: a behaviour is one call of a validation         *)
(* function on a schema of the registry; call and ret hold that call       *)
(***************************************************************************)
MaxItems == 2

\* arrays of up to MaxItems rows, each the sample or the sample with its first
\* field null or missing
ArrayInputs(name) ==
    LET row == Restrict(SampleRow(name[2]), DOMAIN SchemaOf(name).shape)
        key == SchemaOf(name).keys[1]
        rows == {Obj(row), Obj([row EXCEPT ![key] = Null]),
                 Obj(Restrict(row, (DOMAIN row) \ {key}))}
    IN  {Arr(a) : a \in SeqsUpTo(rows, MaxItems)}

\* JSON texts: rows of the registry, other well-formed texts and malformed ones
JsonTexts ==
    { <<"{", "\"", "i", "d", "\"", ":", " ", "\"", "a", "a", "a", "a", "a", "a", "a", "a", "-", "a", "a", "a", "a", "-", "a", "a", "a", "a", "-", "a", "a", "a", "a", "-", "a", "a", "a", "a", "a", "a", "a", "a", "a", "a", "a", "a", "\"", ",", " ", "\"", "r", "e", "c", "i", "p", "e", "_", "i", "d", "\"", ":", " ", "\"", "c", "c", "c", "c", "c", "c", "c", "c", "-", "c", "c", "c", "c", "-", "c", "c", "c", "c", "-", "c", "c", "c", "c", "-", "c", "c", "c", "c", "c", "c", "c", "c", "c", "c", "c", "c", "\"", ",", " ", "\"", "s", "t", "e", "p", "_", "n", "u", "m", "b", "e", "r", "\"", ":", " ", "1", ",", " ", "\"", "i", "n", "s", "t", "r", "u", "c", "t", "i", "o", "n", "\"", ":", " ", "\"", " ", "B", "a", "k", "e", " ", "\"", "}">>,
      <<"{", "\"", "u", "s", "e", "r", "_", "i", "d", "\"", ":", "\"", "b", "b", "b", "b", "b", "b", "b", "b", "-", "b", "b", "b", "b", "-", "b", "b", "b", "b", "-", "b", "b", "b", "b", "-", "b", "b", "b", "b", "b", "b", "b", "b", "b", "b", "b", "b", "\"", ",", "\"", "t", "i", "t", "l", "e", "\"", ":", "n", "u", "l", "l", "}">>,
      <<"{", "\"", "s", "t", "e", "p", "_", "n", "u", "m", "b", "e", "r", "\"", ":", " ", "1", ".", "5", ",", " ", "\"", "s", "t", "e", "p", "_", "n", "u", "m", "b", "e", "r", "\"", ":", " ", "-", "2", "}">>,
      <<"{", "}">>,
      <<"n", "u", "l", "l">>,
      <<"[", "1", ",", " ", "t", "r", "u", "e", "]">>,
      <<"\"", "a", "b", "c", "\"">>,
      <<" ", "1", "2", " ">>,
      << >>,
      <<"t", "r", "u">>,
      <<"\"", "a", "b", "c">>,
      <<"0", "1">>,
      <<"{", "\"", "a", "\"", ":", "1", ",", "}">>,
      <<"{", "a", ":", "1", "}">>,
      <<"[", "1", " ", "2", "]">>,
      <<"{", "\"", "a", "\"", " ", "1", "}">>,
      <<"n", "u", "l", "l", " ", "x">> }

CallOf(fn, name, data) == [fn |-> fn, schema |-> name, data |-> data]

CallValidate ==
    /\ call = NoCall
    /\ \E name \in SchemaNames \cup {<<"form", "signUp">>} : \E data \in Inputs(name) :
           /\ call' = CallOf("validate", name, data)
           /\ ret' = validate(SchemaOf(name), data)
    /\ UNCHANGED <<timerVars, pantryVars, cacheVars, results, merged, trace>>

CallValidateOrThrow ==
    /\ call = NoCall
    /\ \E name \in SchemaNames : \E data \in Inputs(name) :
           /\ call' = CallOf("validateOrThrow", name, data)
           /\ ret' = validateOrThrow(SchemaOf(name), data)
    /\ UNCHANGED <<timerVars, pantryVars, cacheVars, results, merged, trace>>

CallValidatePartial ==
    /\ call = NoCall
    /\ \E name \in SchemaNames : \E data \in Inputs(name) :
           /\ call' = CallOf("validatePartial", name, data)
           /\ ret' = validatePartial(SchemaOf(name), data)
    /\ UNCHANGED <<timerVars, pantryVars, cacheVars, results, merged, trace>>

CallValidateArray ==
    /\ call = NoCall
    /\ \E name \in SchemaNames : \E data \in ArrayInputs(name) \cup FieldPool :
           /\ call' = CallOf("validateArray", name, data)
           /\ ret' = validateArray(SchemaOf(name), data)
    /\ UNCHANGED <<timerVars, pantryVars, cacheVars, results, merged, trace>>

CallValidateArrayOrThrow ==
    /\ call = NoCall
    /\ \E name \in SchemaNames : \E data \in ArrayInputs(name) \cup FieldPool :
           /\ call' = CallOf("validateArrayOrThrow", name, data)
           /\ ret' = validateArrayOrThrow(SchemaOf(name), data)
    /\ UNCHANGED <<timerVars, pantryVars, cacheVars, results, merged, trace>>

\* error lists of up to MaxErrors errors, some with the same field
CallFormatErrorMessage ==
    /\ call = NoCall
    /\ \E errors \in SeqsUpTo(ErrorPool \cup {ValidationError("email", "Email is required")},
                               MaxErrors) :
           /\ call' = [fn |-> "formatErrorMessage", errors |-> errors]
           /\ ret' = Return(formatErrorMessage(errors))
    /\ UNCHANGED <<timerVars, pantryVars, cacheVars, results, merged, trace>>

CallToFormErrors ==
    /\ call = NoCall
    /\ \E errors \in SeqsUpTo(ErrorPool \cup {ValidationError("email", "Email is required")},
                               MaxErrors) :
           /\ call' = [fn |-> "toFormErrors", errors |-> errors]
           /\ ret' = Return(toFormErrors(errors))
    /\ UNCHANGED <<timerVars, pantryVars, cacheVars, results, merged, trace>>

CallParseJSON ==
    /\ call = NoCall
    /\ \E name \in SchemaNames : \E json \in JsonTexts :
           /\ call' = CallOf("parseJSON", name, json)
           /\ ret' = parseJSON(SchemaOf(name), json)
    /\ UNCHANGED <<timerVars, pantryVars, cacheVars, results, merged, trace>>

CallCollectOn ==
    /\ call = NoCall
    /\ \E rs \in SeqsUpTo(ResultInputs, MaxResults) :
           /\ call' = [fn |-> "collectValidationErrors", results |-> rs]
           /\ ret' = collectValidationErrors(rs)
    /\ UNCHANGED <<timerVars, pantryVars, cacheVars, results, merged, trace>>

\* sanitizeObject working on obj itself instead of a copy
sanitizeObject_InPlace(obj) ==
    LET sanitized == [key \in DOMAIN obj |->
                         IF obj[key].t = "string" THEN Str(sanitizeString(obj[key].s))
                         ELSE obj[key]]
    IN  [obj |-> sanitized, sanitized |-> sanitized]

\* sanitizeObject: the copy { ...obj } with each string-valued property
\* replaced; the result holds obj as the call leaves it and the copy returned
sanitizeObject(obj) ==
    LET sanitized == [key \in DOMAIN obj |->
                         IF obj[key].t = "string" THEN Str(sanitizeString(obj[key].s))
                         ELSE obj[key]]
    IN  [obj |-> obj, sanitized |-> sanitized]

\* objects of up to two properties: strings with characters to escape and
\* spaces to trim, other values, and an object and an array holding a string
CallSanitizeObject ==
    /\ call = NoCall
    /\ \E keys \in SUBSET {"name", "notes"} :
       \E obj \in [keys -> {Str(<<"<", "b", ">">>), Str(<<" ", "&">>), Num(1), Null, Bool(TRUE),
                            Undefined, Obj([name |-> Str(<<"<">>)]), Arr(<<Str(<<"&">>)>>)}] :
       \E done \in {sanitizeObject(obj)} :
           /\ call' = [fn |-> "sanitizeObject", obj |-> Obj(obj), objAfter |-> Obj(done.obj)]
           /\ ret' = Return(Obj(done.sanitized))
    /\ UNCHANGED <<timerVars, pantryVars, cacheVars, results, merged, trace>>

\* the strings offered to sanitizeString: up to MaxLen characters, among
\* them the escaped ones, a space and a letter
MaxLen == 3

CallSanitizeString ==
    /\ call = NoCall
    /\ \E input \in SeqsUpTo({"&", "<", ">", "\"", "'", "/", " ", "a"}, MaxLen) :
           /\ call' = [fn |-> "sanitizeString", input |-> Str(input)]
           /\ ret' = Str(sanitizeString(input))
    /\ UNCHANGED <<timerVars, pantryVars, cacheVars, results, merged, trace>>

\* the evaluation of the supabase module: import.meta.env holds strings or
\* nothing; the URLs offered are none, "", "x" and "https://x", the keys none,
\* "", " " and "k", the modes none, the three of the enum, "staging" and "Test"
LoadSupabase ==
    /\ call = NoCall
    /\ \E mode \in {Undefined, Str(DEVELOPMENT), Str(PRODUCTION), Str(TEST),
                     Str(<<"s", "t", "a", "g", "i", "n", "g">>), Str(<<"T", "e", "s", "t">>)} :
       \E url \in {Undefined, Str(<< >>), Str(<<"x">>), Str(<<"h", "t", "t", "p", "s", ":", "/", "/", "x">>)} :
       \E key \in {Undefined, Str(<< >>), Str(<<" ">>), Str(<<"k">>)} :
       \E env \in {validateEnv(createEnvSchema(mode),
                               Obj([VITE_SUPABASE_URL |-> url, VITE_SUPABASE_ANON_KEY |-> key,
                                    MODE |-> mode]))} :
           /\ call' = [fn |-> "supabase", mode |-> mode, url |-> url, key |-> key]
           /\ trace' = <<[ev |-> "validateEnv", out |-> env]>>
           /\ IF env.throws THEN ret' = env
              ELSE LET supabaseUrl == env.value.o.VITE_SUPABASE_URL
                       supabaseAnonKey == env.value.o.VITE_SUPABASE_ANON_KEY
                       falsy(v) == v \in {Undefined, Str(<< >>)}
                   IN  IF mode = Str(TEST)
                       THEN ret' = Return([client |-> "mock"])
                       ELSE IF falsy(supabaseUrl) \/ falsy(supabaseAnonKey)
                       THEN ret' = Throw("Supabase configuration missing. Please create a .env file with:\n"
                                         \o "VITE_SUPABASE_URL=your_supabase_url\n"
                                         \o "VITE_SUPABASE_ANON_KEY=your_supabase_anon_key\n\n"
                                         \o "See the README for setup instructions.")
                       ELSE ret' = Return([client |-> "real", supabaseUrl |-> supabaseUrl,
                                           supabaseKey |-> supabaseAnonKey])
    /\ UNCHANGED <<timerVars, pantryVars, cacheVars, results, merged>>

NextValidate ==
    \/ LoadSupabase
    \/ CallSanitizeObject
    \/ CallSanitizeString
    \/ CallValidate
    \/ CallValidateOrThrow
    \/ CallValidatePartial
    \/ CallValidateArray
    \/ CallValidateArrayOrThrow
    \/ CallFormatErrorMessage
    \/ CallToFormErrors
    \/ CallParseJSON
    \/ CallCollectOn

SpecValidate == InitCollect /\ [][NextValidate]_vars

(***************************************************************************)
(* The data-access services (database.ts): a behaviour is one operation.   *)
(* Calling it runs the code up to its backend request (or to a throw or a  *)
(* return before any request); the backend then answers, and the rest of   *)
(* the operation runs on that answer.                                      *)
(***************************************************************************)
MaxRows == 2

\* the entries of trace
Validated(name, data, out) ==
    [ev |-> "validateOrThrow", schema |-> name, data |-> data, out |-> out]

Request(table, verb, payload) ==
    [ev |-> "request", table |-> table, verb |-> verb, payload |-> payload]

Response(resp) == [ev |-> "response", data |-> resp.data, error |-> resp.error]

\* { ...a, ...b }
Spread(a, b) ==
    [key \in (DOMAIN a) \cup (DOMAIN b) |-> IF key \in DOMAIN b THEN b[key] ELSE a[key]]

Table(e) ==
    CASE e = "ingredient" -> "ingredients"
      [] e = "recipe" -> "recipes"
      [] e = "recipeIngredient" -> "recipe_ingredients"
      [] e = "recipeInstruction" -> "recipe_instructions"
      [] e = "shoppingList" -> "shopping_lists"
      [] e = "shoppingListItem" -> "shopping_list_items"
      [] e = "userProfile" -> "user_profiles"
      [] e = "userPreferences" -> "user_preferences"
      [] e = "leftover" -> "leftovers"
      [] e = "conversation" -> "conversations"
      [] e = "chatMessage" -> "messages"

Op(fn, e) == [fn |-> fn, e |-> e]

\* the reads that return a validated list of rows
ListReads ==
    { Op("ingredientService.getAll", "ingredient"),
      Op("ingredientService.getExpiringSoon", "ingredient"),
      Op("ingredientService.getLowStockItems", "ingredient"),
      Op("recipeService.getAll", "recipe"),
      Op("recipeService.getIngredients", "recipeIngredient"),
      Op("recipeService.getInstructions", "recipeInstruction"),
      Op("shoppingListService.getAllLists", "shoppingList"),
      Op("shoppingListService.getListItems", "shoppingListItem"),
      Op("leftoverService.getAll", "leftover"),
      Op("leftoverService.getExpiringSoon", "leftover"),
      Op("leftoverService.getByRecipe", "leftover"),
      Op("conversationService.getAll", "conversation"),
      Op("chatMessageService.getAll", "chatMessage") }

\* the creates that take the row to insert from their caller
Creates ==
    { Op("ingredientService.create", "ingredient"),
      Op("recipeService.create", "recipe"),
      Op("shoppingListService.createList", "shoppingList"),
      Op("shoppingListService.createItem", "shoppingListItem"),
      Op("leftoverService.create", "leftover") }

\* the updates that take an updates object from their caller
Updates ==
    { Op("ingredientService.update", "ingredient"),
      Op("recipeService.update", "recipe"),
      Op("shoppingListService.updateList", "shoppingList"),
      Op("shoppingListService.updateItem", "shoppingListItem"),
      Op("leftoverService.update", "leftover"),
      Op("userProfileService.updateProfile", "userProfile") }

\* the operation called, as call holds it; input is the object the operation
\* validates or sends, args the other arguments that reach the payload
CallDb(op, kind, input, args) ==
    [fn |-> op.fn, e |-> op.e, kind |-> kind, input |-> input, args |-> args]

Pending == call # NoCall /\ "kind" \in DOMAIN call /\ ret = NoCall

\* const validated = validateOrThrow(schema, input), given what that call
\* gave, then the request: .insert([validated]), .update(validated) or
\* .upsert({ ...validated, ...extra }); a throw ends the operation
ValidateThenRequest(name, input, validated, verb, extra) ==
    IF validated.throws
    THEN /\ trace' = <<Validated(name, input, validated)>>
         /\ ret' = validated
    ELSE /\ trace' = <<Validated(name, input, validated),
                       Request(Table(name[2]), verb,
                               CASE verb = "insert" -> Arr(<<validated.value>>)
                                 [] verb = "update" -> validated.value
                                 [] verb = "upsert" -> Obj(Spread(validated.value.o, extra)))>>
         /\ ret' = NoCall

\* create: validateOrThrow(insertSchema, input), then .insert([validatedInput])
Create ==
    /\ call = NoCall
    /\ \E op \in Creates : \E input \in Inputs(<<"insert", op.e>>) :
           /\ call' = CallDb(op, "create", input, << >>)
           /\ ValidateThenRequest(<<"insert", op.e>>, input,
                                  validateOrThrow(InsertSchema(op.e), input), "insert", << >>)
    /\ UNCHANGED <<timerVars, pantryVars, cacheVars, results, merged>>

\* conversationService.create(userId, title): the input is built from the
\* arguments, title defaulting to null
CreateConversation ==
    /\ call = NoCall
    /\ \E userId \in {Str(Uuid("b")), Str(<< >>)} :
       \E title \in {Undefined, Null, Str(<<"P", "i", "e">>), Str(Repeat("a", 256))} :
           LET input == Obj([user_id |-> userId,
                             title |-> IF title = Undefined THEN Null ELSE title])
           IN  /\ call' = CallDb(Op("conversationService.create", "conversation"),
                                 "create", input, << >>)
               /\ ValidateThenRequest(<<"insert", "conversation">>, input,
                                      validateOrThrow(InsertSchema("conversation"), input),
                                      "insert", << >>)
    /\ UNCHANGED <<timerVars, pantryVars, cacheVars, results, merged>>

\* chatMessageService.create(conversationId, sender, content, suggestions,
\* recipes): suggestions and recipes enter the input unless undefined
CreateChatMessage ==
    /\ call = NoCall
    /\ \E conversationId \in {Str(Uuid("e")), Str(<< >>)} :
       \E sender \in {Str(<<"u", "s", "e", "r">>), Str(<<"a", "i">>), Str(<< >>)} :
       \E content \in {Str(<<"B", "a", "k", "e">>), Str(<<" ">>), Str(<< >>)} :
       \E suggestions \in {Undefined, Null, Arr(<<Str(<<"P", "i", "e">>)>>)} :
       \E recipes \in {Undefined, Null, Arr(<<Obj(SampleRow("recipe"))>>)} :
           LET input ==
                   Obj(Spread(Spread([conversation_id |-> conversationId,
                                      sender |-> sender,
                                      content |-> content],
                                     IF suggestions # Undefined
                                     THEN [suggestions |-> suggestions] ELSE << >>),
                              IF recipes # Undefined THEN [recipes |-> recipes] ELSE << >>))
           IN  /\ call' = CallDb(Op("chatMessageService.create", "chatMessage"),
                                 "create", input, << >>)
               /\ ValidateThenRequest(<<"insert", "chatMessage">>, input,
                                      validateOrThrow(InsertSchema("chatMessage"), input),
                                      "insert", << >>)
    /\ UNCHANGED <<timerVars, pantryVars, cacheVars, results, merged>>

\* update: validateOrThrow(updateSchema, updates), then .update(validatedUpdates)
Update ==
    /\ call = NoCall
    /\ \E op \in Updates : \E updates \in Inputs(<<"update", op.e>>) :
           /\ call' = CallDb(op, "update", updates, << >>)
           /\ ValidateThenRequest(<<"update", op.e>>, updates,
                                  validateOrThrow(UpdateSchema(op.e), updates), "update", << >>)
    /\ UNCHANGED <<timerVars, pantryVars, cacheVars, results, merged>>

\* userPreferencesService.updatePreferences(userId, updates): the validated
\* updates are upserted together with user_id: userId
UpdatePreferences ==
    /\ call = NoCall
    /\ \E userId \in {Str(Uuid("b")), Str(Uuid("f"))} :
       \E updates \in Inputs(<<"update", "userPreferences">>) :
           /\ call' = CallDb(Op("userPreferencesService.updatePreferences", "userPreferences"),
                             "update", updates, [userId |-> userId])
           /\ ValidateThenRequest(<<"update", "userPreferences">>, updates,
                                  validateOrThrow(UpdateSchema("userPreferences"), updates),
                                  "upsert", [user_id |-> userId])
    /\ UNCHANGED <<timerVars, pantryVars, cacheVars, results, merged>>

\* threshold < 0 on a number: n, or n + 1/2 when h; NaN compares false
LessThanZero(v) == v.t = "number" /\ v.n < 0

\* ingredientService.updateStockThreshold(id, threshold): throws on a negative
\* threshold, else sends { low_stock_threshold: threshold } as it is
UpdateStockThreshold ==
    /\ call = NoCall
    /\ \E threshold \in {Num(0), Num(5), Num(-1), NumHalf(-1), NumHalf(1), NaN} :
           LET input == Obj([low_stock_threshold |-> threshold])
           IN  /\ call' = CallDb(Op("ingredientService.updateStockThreshold", "ingredient"),
                                 "update", input, << >>)
               /\ IF LessThanZero(threshold)
                  THEN /\ trace' = << >>
                       /\ ret' = Throw("Stock threshold must be non-negative")
                  ELSE /\ trace' = <<Request("ingredients", "update", input)>>
                       /\ ret' = NoCall
    /\ UNCHANGED <<timerVars, pantryVars, cacheVars, results, merged>>

\* shoppingListService.togglePurchased(id, isPurchased): sends
\* { is_purchased: isPurchased } as it is
TogglePurchased ==
    /\ call = NoCall
    /\ \E isPurchased \in {Bool(TRUE), Bool(FALSE)} :
           LET input == Obj([is_purchased |-> isPurchased])
           IN  /\ call' = CallDb(Op("shoppingListService.togglePurchased", "shoppingListItem"),
                                 "update", input, << >>)
               /\ trace' = <<Request("shopping_list_items", "update", input)>>
               /\ ret' = NoCall
    /\ UNCHANGED <<timerVars, pantryVars, cacheVars, results, merged>>

\* conversationService.updateTitle(id, title): its first statement reads
\* conversationUpdateSchema, a name the module neither imports nor declares,
\* so evaluating it throws a ReferenceError before any request
UpdateTitle ==
    /\ call = NoCall
    /\ \E title \in {Str(<<"P", "i", "e">>), Str(<< >>), Str(Repeat("a", 256))} :
           call' = CallDb(Op("conversationService.updateTitle", "conversation"),
                          "update", Obj([title |-> title]), << >>)
    /\ trace' = << >>
    /\ ret' = Throw("conversationUpdateSchema is not defined")
    /\ UNCHANGED <<timerVars, pantryVars, cacheVars, results, merged>>

\* a read that selects rows and validates each of them
ReadList ==
    /\ call = NoCall
    /\ \E op \in ListReads :
           /\ call' = CallDb(op, "read", Undefined, << >>)
           /\ trace' = <<Request(IF op.fn = "ingredientService.getLowStockItems"
                                 THEN "get_low_stock_ingredients" ELSE Table(op.e),
                                 IF op.fn = "ingredientService.getLowStockItems"
                                 THEN "rpc" ELSE "select",
                                 Undefined)>>
    /\ ret' = NoCall
    /\ UNCHANGED <<timerVars, pantryVars, cacheVars, results, merged>>

\* userPreferencesService.getPreferences(userId)
GetPreferences ==
    /\ call = NoCall
    /\ call' = CallDb(Op("userPreferencesService.getPreferences", "userPreferences"),
                      "read", Undefined, << >>)
    /\ trace' = <<Request("user_preferences", "select", Undefined)>>
    /\ ret' = NoCall
    /\ UNCHANGED <<timerVars, pantryVars, cacheVars, results, merged>>

\* the reads of one row that answer null when there is none
SingleReads ==
    { Op("recipeService.getById", "recipe"),
      Op("userProfileService.getProfile", "userProfile") }

\* recipeService.getById(id) and userProfileService.getProfile(userId): the
\* select with .single() or .maybeSingle()
GetSingle ==
    /\ call = NoCall
    /\ \E op \in SingleReads :
           /\ call' = CallDb(op, "read", Undefined, << >>)
           /\ trace' = <<Request(Table(op.e), "select", Undefined)>>
    /\ ret' = NoCall
    /\ UNCHANGED <<timerVars, pantryVars, cacheVars, results, merged>>

\* recipeService.getCanCook(userIngredients): no request for an empty list
GetCanCook ==
    /\ call = NoCall
    /\ \E userIngredients \in
           {<< >>, <<<<"F", "l", "o", "u", "r">>>>, <<<<"e", "g", "g">>, <<"L", "O">>>>} :
           /\ call' = CallDb(Op("recipeService.getCanCook", "recipe"), "read",
                             Undefined, [userIngredients |-> userIngredients])
           /\ IF Len(userIngredients) = 0
              THEN trace' = << >> /\ ret' = Return(Arr(<< >>))
              ELSE trace' = <<Request("recipes", "select", Undefined)>> /\ ret' = NoCall
    /\ UNCHANGED <<timerVars, pantryVars, cacheVars, results, merged>>

(***************************************************************************)
(* The backend's answers { data, error } and the rest of each operation    *)
(***************************************************************************)
DbData(data) == [data |-> data, error |-> Null]

DbError(code, message) == [data |-> Null, error |-> [code |-> code, message |-> message]]

PermissionDenied == DbError("42501", "permission denied for table")

\* the two answers of a single-row select that found no row
NoRows ==
    { DbError("PGRST116", "JSON object requested, multiple (or no) rows returned"),
      DbError("406", "Results contain 0 rows: multiple (or no) rows returned") }

\* a row the Read schema rejects
InvalidRow(e) == Obj([SampleRow(e) EXCEPT !["id"] = Num(0)])

\* the row a backend that applies the request holds afterwards: the inserted
\* payload with the server-generated fields, or the row with the updates.
\* The payload arrives as JSON.stringify writes it: a key whose value is
\* undefined is left out, and NaN is written as null
Stored(e, request) ==
    LET sent == IF request.verb = "insert" THEN request.payload.a[1].o
                ELSE request.payload.o
        received == [key \in {k \in DOMAIN sent : sent[k] # Undefined} |->
                        IF sent[key] = NaN THEN Null ELSE sent[key]]
    IN  Obj(Spread(IF request.verb = "insert"
                   THEN Restrict(SampleRow(e), InsertOmits(e)) ELSE SampleRow(e),
                   received))

RowResponses(e, request) ==
    { PermissionDenied, DbData(Null), DbData(Obj(SampleRow(e))), DbData(InvalidRow(e)),
      DbData(Stored(e, request)) }

ListResponses(rows) ==
    {PermissionDenied, DbData(Null)} \cup {DbData(Arr(a)) : a \in SeqsUpTo(rows, MaxRows)}

\* rows.map((item) => validateOrThrow(schema, item)), given the outcome outs[i]
\* of the call on rows[i]: the calls made, up to and including the first one
\* that throws, and the outcome of the map
MapValidate(name, rows, outs) ==
    LET bad == {i \in 1..Len(rows) : outs[i].throws}
        last == IF bad = {} THEN Len(rows) ELSE CHOOSE i \in bad : \A j \in bad : i <= j
    IN  [calls |-> [i \in 1..last |-> Validated(name, rows[i], outs[i])],
         out |-> IF bad = {} THEN Return(Arr([i \in 1..Len(rows) |-> outs[i].value]))
                 ELSE outs[last]]

\* create and update after the request:
\* if (error) throw error; return validateOrThrow(readSchema, data)
RespondRow ==
    /\ Pending
    /\ call.kind \in {"create", "update"}
    /\ \E resp \in RowResponses(call.e, trace[Len(trace)]) :
           IF resp.error # Null
           THEN /\ trace' = Append(trace, Response(resp))
                /\ ret' = Throw(resp.error.message)
           ELSE \E out \in {validateOrThrow(ReadSchema(call.e), resp.data)} :
                    /\ trace' = trace \o <<Response(resp),
                                           Validated(<<"read", call.e>>, resp.data, out)>>
                    /\ ret' = out
    /\ UNCHANGED <<timerVars, pantryVars, cacheVars, results, merged, call>>

\* a validated list read after the request:
\* if (error) throw error; return (data || []).map(validateOrThrow)
RespondList ==
    /\ Pending
    /\ Op(call.fn, call.e) \in ListReads
    /\ \E resp \in ListResponses({Obj(SampleRow(call.e)), InvalidRow(call.e)}) :
           IF resp.error # Null
           THEN /\ trace' = Append(trace, Response(resp))
                /\ ret' = Throw(resp.error.message)
           ELSE \E rows \in {IF resp.data = Null THEN << >> ELSE resp.data.a} :
                \E mapped \in {MapValidate(<<"read", call.e>>, rows,
                                    [i \in 1..Len(rows) |->
                                        validateOrThrow(ReadSchema(call.e), rows[i])])} :
                    /\ trace' = trace \o <<Response(resp)>> \o mapped.calls
                    /\ ret' = mapped.out
    /\ UNCHANGED <<timerVars, pantryVars, cacheVars, results, merged, call>>

\* what handleApiError(error) may return for a backend error: the function
\* is defined in errorUtils.ts, outside these sources
ApiErrorMessages(error) == {error.message, "An unknown error occurred."}

\* error.message.includes("multiple (or no) rows returned"), on the messages
\* of the backend answers above
MentionsRows(message) == message \in {resp.error.message : resp \in NoRows}

\* getPreferences after the request: return data as it came; an error is
\* caught, and gives null when it reports that no row was found
RespondPreferences ==
    /\ Pending
    /\ call.fn = "userPreferencesService.getPreferences"
    /\ \E resp \in RowResponses("userPreferences", [verb |-> "select", payload |-> Obj(<< >>)])
                       \cup NoRows :
           /\ trace' = Append(trace, Response(resp))
           /\ IF resp.error = Null
              THEN ret' = Return(resp.data)
              ELSE IF resp.error.code = "PGRST116" \/ MentionsRows(resp.error.message)
                   THEN ret' = Return(Null)
                   ELSE \E message \in ApiErrorMessages(resp.error) : ret' = Throw(message)
    /\ UNCHANGED <<timerVars, pantryVars, cacheVars, results, merged, call>>

\* the catch block of getById and of getProfile, on the value thrown: null
\* when its code is "PGRST116" or its message mentions the rows, else a new
\* Error with what handleApiError gives; a validation error has no code
Caught(code, message) ==
    IF code = "PGRST116" \/ MentionsRows(message)
    THEN {Return(Null)}
    ELSE {Throw(m) : m \in ApiErrorMessages([message |-> message])}

\* the catch block answering null whatever was thrown
RespondSingle_NullOnAnyError ==
    /\ Pending
    /\ Op(call.fn, call.e) \in SingleReads
    /\ \E resp \in RowResponses(call.e, [verb |-> "select", payload |-> Obj(<< >>)]) \cup NoRows :
           IF resp.error # Null
           THEN /\ trace' = Append(trace, Response(resp))
                /\ ret' = Return(Null)
           ELSE IF resp.data = Null
           THEN /\ trace' = Append(trace, Response(resp))
                /\ ret' = Return(Null)
           ELSE \E out \in {validateOrThrow(ReadSchema(call.e), resp.data)} :
                    /\ trace' = trace \o <<Response(resp),
                                           Validated(<<"read", call.e>>, resp.data, out)>>
                    /\ ret' = IF out.throws THEN Return(Null) ELSE out
    /\ UNCHANGED <<timerVars, pantryVars, cacheVars, results, merged, call>>

\* getById and getProfile after the request: if (error) throw error; null
\* without data, else validateOrThrow(readSchema, data); whatever is thrown
\* goes through the catch block
RespondSingle ==
    /\ Pending
    /\ Op(call.fn, call.e) \in SingleReads
    /\ \E resp \in RowResponses(call.e, [verb |-> "select", payload |-> Obj(<< >>)]) \cup NoRows :
           IF resp.error # Null
           THEN /\ trace' = Append(trace, Response(resp))
                /\ ret' \in Caught(resp.error.code, resp.error.message)
           ELSE IF resp.data = Null
           THEN /\ trace' = Append(trace, Response(resp))
                /\ ret' = Return(Null)
           ELSE \E out \in {validateOrThrow(ReadSchema(call.e), resp.data)} :
                    /\ trace' = trace \o <<Response(resp),
                                           Validated(<<"read", call.e>>, resp.data, out)>>
                    /\ IF out.throws
                       THEN ret' \in Caught("", out.message)
                       ELSE ret' = out
    /\ UNCHANGED <<timerVars, pantryVars, cacheVars, results, merged, call>>

\* String.prototype.toLowerCase on the letters A-Z; other characters stay
toLowerCase(s) ==
    LET UpperCase == <<"A", "B", "C", "D", "E", "F", "G", "H", "I", "J", "K", "L", "M",
                       "N", "O", "P", "Q", "R", "S", "T", "U", "V", "W", "X", "Y", "Z">>
        LowerCase == <<"a", "b", "c", "d", "e", "f", "g", "h", "i", "j", "k", "l", "m",
                       "n", "o", "p", "q", "r", "s", "t", "u", "v", "w", "x", "y", "z">>
    IN  [i \in 1..Len(s) |->
            IF \E n \in 1..26 : UpperCase[n] = s[i]
            THEN LowerCase[CHOOSE n \in 1..26 : UpperCase[n] = s[i]]
            ELSE s[i]]

\* s.includes(part)
includes(s, part) ==
    \E i \in 0..(Len(s) - Len(part)) : SubSeq(s, i + 1, i + Len(part)) = part

\* the filter of getCanCook: every ingredient the recipe requires matches
\* some available ingredient, either name containing the other
canCook(recipe, userIngredients) ==
    LET ris == IF "recipe_ingredients" \in DOMAIN recipe.o
               THEN recipe.o.recipe_ingredients.a ELSE << >>
        requiredIngredients ==
            [i \in 1..Len(ris) |-> toLowerCase(ris[i].o.ingredient_name.s)]
    IN  \A i \in 1..Len(ris) : \E j \in 1..Len(userIngredients) :
            \/ includes(toLowerCase(userIngredients[j]), requiredIngredients[i])
            \/ includes(requiredIngredients[i], toLowerCase(userIngredients[j]))

\* recipes joined with their recipe_ingredients, as the select of getCanCook
\* asks for them
RecipesWithIngredients ==
    LET needs(names) ==
            [recipe_ingredients |->
                Arr([i \in 1..Len(names) |-> Obj([ingredient_name |-> Str(names[i])])])]
    IN  { Obj(SampleRow("recipe")),
          Obj(Spread(SampleRow("recipe"), needs(<<<<"F", "l", "o", "u", "r">>>>))),
          Obj(Spread(InvalidRow("recipe").o, needs(<<<<"E", "g", "g", "s">>>>))),
          Obj(Spread(SampleRow("recipe"),
                     needs(<<<<"f", "l", "o", "u", "r">>, <<"m", "i", "l", "k">>>>))) }

\* getCanCook after the request: if (error) throw error; return the rows the
\* filter keeps, as they came
RespondCanCook ==
    /\ Pending
    /\ call.fn = "recipeService.getCanCook"
    /\ \E resp \in ListResponses(RecipesWithIngredients) :
           /\ trace' = Append(trace, Response(resp))
           /\ IF resp.error # Null
              THEN ret' = Throw(resp.error.message)
              ELSE ret' = Return(Arr(
                       IF resp.data = Null THEN << >>
                       ELSE SelectSeq(resp.data.a,
                                LAMBDA recipe : canCook(recipe, call.args.userIngredients))))
    /\ UNCHANGED <<timerVars, pantryVars, cacheVars, results, merged, call>>

\* shoppingListService.createFromRecipe(listId, recipeId, userIngredients):
\* it starts with recipeService.getIngredients(recipeId)
CreateFromRecipe ==
    /\ call = NoCall
    /\ \E listId \in {Str(Uuid("d")), Str(<< >>)} :
       \E userIngredients \in
           {<< >>, <<<<"f", "l", "o", "u", "r">>>>, <<<<"E", "G", "G">>, <<"F", "l", "o", "u", "r">>>>} :
           call' = CallDb(Op("shoppingListService.createFromRecipe", "shoppingListItem"),
                          "fromRecipe", Undefined,
                          [listId |-> listId, recipeId |-> Str(Uuid("c")),
                           userIngredients |-> userIngredients])
    /\ trace' = <<Request("recipe_ingredients", "select", Undefined)>>
    /\ ret' = NoCall
    /\ UNCHANGED <<timerVars, pantryVars, cacheVars, results, merged>>

\* the rows of recipe_ingredients the backend may hold: two the Read schema
\* accepts as they are, one whose name is a space, one it rejects
RecipeIngredientRows ==
    { Obj(SampleRow("recipeIngredient")),
      Obj([SampleRow("recipeIngredient") EXCEPT !["ingredient_name"] = Str(<<"E", "g", "g", "s">>)]),
      Obj([SampleRow("recipeIngredient") EXCEPT !["ingredient_name"] = Str(<<" ">>),
                                                  !["notes"] = Str(<< >>)]),
      InvalidRow("recipeIngredient") }

\* the filter of lines 636-646: no ingredient of the user has a name that
\* contains, or is contained in, the name of the recipe ingredient
needed(recipeIng, userIngredients) ==
    ~\E j \in 1..Len(userIngredients) :
        \/ includes(toLowerCase(userIngredients[j]), toLowerCase(recipeIng.o.ingredient_name.s))
        \/ includes(toLowerCase(recipeIng.o.ingredient_name.s), toLowerCase(userIngredients[j]))

\* the shopping-list item of lines 649-658 for one needed ingredient
itemOf(ingredient, listId, recipeId) ==
    Obj([shopping_list_id |-> listId,
         name |-> ingredient.o.ingredient_name,
         quantity |-> ingredient.o.quantity,
         unit |-> ingredient.o.unit,
         category |-> Str(<<"O", "t", "h", "e", "r">>),
         is_purchased |-> Bool(FALSE),
         notes |-> IF "notes" \in DOMAIN ingredient.o /\ ingredient.o.notes.t = "string"
                      /\ ingredient.o.notes.s # << >>
                   THEN ingredient.o.notes ELSE Str(<< >>),
         recipe_id |-> recipeId])

\* the insert sent before the validation of the items, which then only
\* decides what is returned
RespondIngredients_InsertFirst ==
    /\ Pending
    /\ call.fn = "shoppingListService.createFromRecipe"
    /\ trace[Len(trace)].ev = "request" /\ trace[Len(trace)].verb = "select"
    /\ \E resp \in ListResponses(RecipeIngredientRows) :
           IF resp.error # Null
           THEN /\ trace' = Append(trace, Response(resp))
                /\ ret' = Throw(resp.error.message)
           ELSE \E rows \in {IF resp.data = Null THEN << >> ELSE resp.data.a} :
                \E recipeIngredients \in {MapValidate(<<"read", "recipeIngredient">>, rows,
                                              [i \in 1..Len(rows) |->
                                                  validateOrThrow(recipeIngredientSchema, rows[i])])} :
                    IF recipeIngredients.out.throws
                    THEN /\ trace' = trace \o <<Response(resp)>> \o recipeIngredients.calls
                         /\ ret' = recipeIngredients.out
                    ELSE \E items \in {[i \in 1..Len(recipeIngredients.out.value.a) |->
                                           itemOf(recipeIngredients.out.value.a[i], call.args.listId,
                                                  call.args.recipeId)]} :
                             /\ trace' = trace \o <<Response(resp)>> \o recipeIngredients.calls
                                              \o <<Request("shopping_list_items", "insert", Arr(items))>>
                             /\ ret' = NoCall
    /\ UNCHANGED <<timerVars, pantryVars, cacheVars, results, merged, call>>

\* createFromRecipe once getIngredients has its answer: getIngredients throws
\* the error or validates each row; the needed ingredients become items; no
\* item ends the operation with []; else every item is validated, and only
\* then the one insert is sent
RespondIngredients ==
    /\ Pending
    /\ call.fn = "shoppingListService.createFromRecipe"
    /\ trace[Len(trace)].ev = "request" /\ trace[Len(trace)].verb = "select"
    /\ \E resp \in ListResponses(RecipeIngredientRows) :
           IF resp.error # Null
           THEN /\ trace' = Append(trace, Response(resp))
                /\ ret' = Throw(resp.error.message)
           ELSE \E rows \in {IF resp.data = Null THEN << >> ELSE resp.data.a} :
                \E recipeIngredients \in {MapValidate(<<"read", "recipeIngredient">>, rows,
                                              [i \in 1..Len(rows) |->
                                                  validateOrThrow(recipeIngredientSchema, rows[i])])} :
                    IF recipeIngredients.out.throws
                    THEN /\ trace' = trace \o <<Response(resp)>> \o recipeIngredients.calls
                         /\ ret' = recipeIngredients.out
                    ELSE \E neededIngredients \in
                             {SelectSeq(recipeIngredients.out.value.a,
                                        LAMBDA ing : needed(ing, call.args.userIngredients))} :
                         \E items \in {[i \in 1..Len(neededIngredients) |->
                                           itemOf(neededIngredients[i], call.args.listId,
                                                  call.args.recipeId)]} :
                             IF Len(items) = 0
                             THEN /\ trace' = trace \o <<Response(resp)>> \o recipeIngredients.calls
                                  /\ ret' = Return(Arr(<< >>))
                             ELSE \E validatedItems \in
                                      {MapValidate(<<"insert", "shoppingListItem">>, items,
                                           [i \in 1..Len(items) |->
                                               validateOrThrow(InsertSchema("shoppingListItem"), items[i])])} :
                                      IF validatedItems.out.throws
                                      THEN /\ trace' = trace \o <<Response(resp)>>
                                                        \o recipeIngredients.calls \o validatedItems.calls
                                           /\ ret' = validatedItems.out
                                      ELSE /\ trace' = trace \o <<Response(resp)>>
                                                        \o recipeIngredients.calls \o validatedItems.calls
                                                        \o <<Request("shopping_list_items", "insert",
                                                                     validatedItems.out.value)>>
                                           /\ ret' = NoCall
    /\ UNCHANGED <<timerVars, pantryVars, cacheVars, results, merged, call>>

\* createFromRecipe after the insert: if (error) throw error; return
\* (data || []).map(validateOrThrow)
RespondInserted ==
    /\ Pending
    /\ call.fn = "shoppingListService.createFromRecipe"
    /\ trace[Len(trace)].ev = "request" /\ trace[Len(trace)].verb = "insert"
    /\ \E resp \in ListResponses({Obj(SampleRow("shoppingListItem")), InvalidRow("shoppingListItem")}) :
           IF resp.error # Null
           THEN /\ trace' = Append(trace, Response(resp))
                /\ ret' = Throw(resp.error.message)
           ELSE \E rows \in {IF resp.data = Null THEN << >> ELSE resp.data.a} :
                \E mapped \in {MapValidate(<<"read", "shoppingListItem">>, rows,
                                    [i \in 1..Len(rows) |->
                                        validateOrThrow(shoppingListItemSchema, rows[i])])} :
                    /\ trace' = trace \o <<Response(resp)>> \o mapped.calls
                    /\ ret' = mapped.out
    /\ UNCHANGED <<timerVars, pantryVars, cacheVars, results, merged, call>>

NextDb ==
    \/ Create
    \/ CreateConversation
    \/ CreateChatMessage
    \/ Update
    \/ UpdatePreferences
    \/ UpdateStockThreshold
    \/ TogglePurchased
    \/ UpdateTitle
    \/ ReadList
    \/ GetPreferences
    \/ GetCanCook
    \/ GetSingle
    \/ RespondRow
    \/ RespondList
    \/ RespondPreferences
    \/ RespondSingle
    \/ RespondCanCook
    \/ CreateFromRecipe
    \/ RespondIngredients
    \/ RespondInserted

SpecDb == InitCollect /\ [][NextDb]_vars

(***************************************************************************)
(* The debounced validator (utils.ts:241-268)                              *)
(***************************************************************************)
Delay == 2          \* the delay, in ticks of the clock
MaxTime == 5        \* the clock stops here
MaxCalls == 3       \* validator calls in a behaviour
MaxCleanups == 1    \* cleanup calls in a behaviour

\* createDebouncedValidator(schema, delay)
debounced == [schema |-> positiveNumberSchema, delay |-> Delay]

Events(ev) == SelectSeq(history, LAMBDA e : e.ev = ev)

\* clearTimeout(id): no timer with that id stays set
clearTimeout(id) == {t \in timers : t.id # id}

\* validator(data) without the clearTimeout of the timer that is set
Validator_NoClear ==
    /\ Len(Events("call")) < MaxCalls
    /\ now + debounced.delay <= MaxTime
    /\ \E data \in {Num(1), Num(0)} :
           LET id == Len(Events("call")) + 1
           IN  /\ timers' = timers \cup {[id |-> id, due |-> now + debounced.delay, data |-> data]}
               /\ timeoutId' = id
               /\ history' = Append(history, [ev |-> "call", at |-> now, id |-> id, data |-> data])
    /\ UNCHANGED <<now, results, merged, call, ret, trace, pantryVars, cacheVars>>

\* validator(data): clears the timer that is set, if any, and sets a new one
\* whose callback resolves the promise of this call; the id of a timer is the
\* number of the call that set it
Validator ==
    /\ Len(Events("call")) < MaxCalls
    /\ now + debounced.delay <= MaxTime
    /\ \E data \in {Num(1), Num(0)} :
           LET id == Len(Events("call")) + 1
               cleared == IF timeoutId # 0 THEN clearTimeout(timeoutId) ELSE timers
           IN  /\ timers' = cleared \cup {[id |-> id, due |-> now + debounced.delay, data |-> data]}
               /\ timeoutId' = id
               /\ history' = Append(history, [ev |-> "call", at |-> now, id |-> id, data |-> data])
    /\ UNCHANGED <<now, results, merged, call, ret, trace, pantryVars, cacheVars>>

\* the callback resolving with the validation of no data
TimerCallback_StaleResult ==
    /\ \E t \in timers :
           /\ now >= t.due
           /\ timers' = timers \ {t}
           /\ history' = Append(history, [ev |-> "validate", at |-> now, id |-> t.id, data |-> t.data,
                                          result |-> validate(debounced.schema, Undefined)])
    /\ timeoutId' = 0
    /\ UNCHANGED <<now, results, merged, call, ret, trace, pantryVars, cacheVars>>

\* the callback without timeoutId = null
TimerCallback_NoReset ==
    /\ \E t \in timers :
           /\ now >= t.due
           /\ timers' = timers \ {t}
           /\ history' = Append(history, [ev |-> "validate", at |-> now, id |-> t.id, data |-> t.data,
                                          result |-> validate(debounced.schema, t.data)])
    /\ UNCHANGED <<timeoutId, now, results, merged, call, ret, trace, pantryVars, cacheVars>>

\* the callback of a timer, run by the event loop no sooner than the timer is
\* due: resolve(validate(schema, data)); timeoutId = null
TimerCallback ==
    /\ \E t \in timers :
           /\ now >= t.due
           /\ timers' = timers \ {t}
           /\ history' = Append(history, [ev |-> "validate", at |-> now, id |-> t.id, data |-> t.data,
                                          result |-> validate(debounced.schema, t.data)])
    /\ timeoutId' = 0
    /\ UNCHANGED <<now, results, merged, call, ret, trace, pantryVars, cacheVars>>

\* cleanup() that forgets the timer without clearing it
Cleanup_KeepsTimer ==
    /\ Len(Events("cleanup")) < MaxCleanups
    /\ timeoutId' = 0
    /\ history' = Append(history, [ev |-> "cleanup", at |-> now])
    /\ UNCHANGED <<timers, now, results, merged, call, ret, trace, pantryVars, cacheVars>>

\* cleanup()
Cleanup ==
    /\ Len(Events("cleanup")) < MaxCleanups
    /\ IF timeoutId # 0
       THEN timers' = clearTimeout(timeoutId) /\ timeoutId' = 0
       ELSE UNCHANGED <<timers, timeoutId>>
    /\ history' = Append(history, [ev |-> "cleanup", at |-> now])
    /\ UNCHANGED <<now, results, merged, call, ret, trace, pantryVars, cacheVars>>

\* time passes; a timer that is due may still be waiting for the event loop
Tick ==
    /\ now < MaxTime
    /\ now' = now + 1
    /\ UNCHANGED <<timeoutId, timers, history, results, merged, call, ret, trace, pantryVars, cacheVars>>

NextDebounce == Validator \/ TimerCallback \/ Cleanup \/ Tick

SpecDebounce == InitCollect /\ [][NextDebounce]_vars

\* time does pass, and the event loop does run a timer that stays due
SpecDebounceLive == SpecDebounce /\ WF_vars(Tick) /\ WF_vars(TimerCallback)

(***************************************************************************)
(* ingredientService.addOrUpdateFromShopping, called concurrently           *)
(* (database.ts:154-192)                                                   *)
(***************************************************************************)
Shoppers == 2       \* concurrent calls for the same user and item name

\* the pantry before the calls: no row of the item, or one row of quantity 1;
\* each call adds 1 or 2
InitPantry ==
    /\ results = << >> /\ merged = << >> /\ call = NoCall /\ ret = NoCall /\ trace = << >>
    /\ now = 0 /\ timeoutId = 0 /\ timers = {} /\ history = << >>
    /\ stocked \in {0, 1}
    /\ pantry = IF stocked = 0 THEN << >> ELSE <<[id |-> 1, quantity |-> stocked]>>
    /\ shoppers \in [1..Shoppers -> {[pc |-> "search", quantity |-> q, existing |-> 0, found |-> 0] : q \in {1, 2}}]
    /\ InitCache

\* the select of lines 162-167 and the find of lines 171-177: every row of the
\* pantry has the item name, so the first row returned is the match; the
\* backend may also answer with an error, which is thrown
Search(p) ==
    /\ shoppers[p].pc = "search"
    /\ \/ shoppers' = [shoppers EXCEPT ![p].pc = "write",
                                        ![p].existing = IF pantry = << >> THEN 0 ELSE pantry[1].id,
                                        ![p].found = IF pantry = << >> THEN 0 ELSE pantry[1].quantity]
       \/ shoppers' = [shoppers EXCEPT ![p].pc = "failed"]
    /\ UNCHANGED <<pantry, stocked, timerVars, cacheVars, results, merged, call, ret, trace>>

\* this.update(existingIngredient.id, { quantity: newQuantity, unit }) of lines
\* 179-186: the quantity written is the one read by the search plus the added
\* one
UpdateExisting(p) ==
    /\ shoppers[p].pc = "write"
    /\ shoppers[p].existing # 0
    /\ \E validatedUpdates \in {validateOrThrow(UpdateSchema("ingredient"),
                                  Obj([quantity |-> Num(shoppers[p].found + shoppers[p].quantity),
                                       unit |-> Str(<<"k", "g">>)]))} :
           IF validatedUpdates.throws
           THEN shoppers' = [shoppers EXCEPT ![p].pc = "failed"] /\ UNCHANGED pantry
           ELSE \/ /\ pantry' = [i \in 1..Len(pantry) |->
                                    IF pantry[i].id = shoppers[p].existing
                                    THEN [pantry[i] EXCEPT !.quantity = validatedUpdates.value.o.quantity.n]
                                    ELSE pantry[i]]
                   /\ shoppers' = [shoppers EXCEPT ![p].pc = "done"]
                \/ shoppers' = [shoppers EXCEPT ![p].pc = "failed"] /\ UNCHANGED pantry
    /\ UNCHANGED <<stocked, timerVars, cacheVars, results, merged, call, ret, trace>>

\* this.create({ user_id, name, quantity, unit, category, notes }) of lines
\* 187-196
CreateNew(p) ==
    /\ shoppers[p].pc = "write"
    /\ shoppers[p].existing = 0
    /\ \E validatedInput \in {validateOrThrow(InsertSchema("ingredient"),
                                Obj([user_id |-> Str(Uuid("b")),
                                     name |-> Str(<<"F", "l", "o", "u", "r">>),
                                     quantity |-> Num(shoppers[p].quantity),
                                     unit |-> Str(<<"k", "g">>),
                                     category |-> Str(<<"O", "t", "h", "e", "r">>),
                                     notes |-> Str(<<"A", "d", "d", "e", "d">>)]))} :
           IF validatedInput.throws
           THEN shoppers' = [shoppers EXCEPT ![p].pc = "failed"] /\ UNCHANGED pantry
           ELSE \/ /\ pantry' = Append(pantry, [id |-> Len(pantry) + 1,
                                                quantity |-> validatedInput.value.o.quantity.n])
                   /\ shoppers' = [shoppers EXCEPT ![p].pc = "done"]
                \/ shoppers' = [shoppers EXCEPT ![p].pc = "failed"] /\ UNCHANGED pantry
    /\ UNCHANGED <<stocked, timerVars, cacheVars, results, merged, call, ret, trace>>

NextPantry == \E p \in 1..Shoppers : Search(p) \/ UpdateExisting(p) \/ CreateNew(p)

SpecPantry == InitPantry /\ [][NextPantry]_vars

(***************************************************************************)
(* The in-memory cache of database.ts                                      *)
(***************************************************************************)
\* the keys callers pass: the empty string and two keys of the Recipes page
CacheKeys == {"", "recipes_u1", "ingredients_u1"}

\* the values callers store
CacheValues == {1, 2}

\* an optional argument key?: string
NoKey == [given |-> FALSE, key |-> ""]

Key(k) == [given |-> TRUE, key |-> k]

\* if (key): undefined and the empty string are falsy
Truthy(key) == key.given /\ key.key # ""

\* _cache[key] as T | undefined
getFromCache(c, k) == IF k \in DOMAIN c THEN [found |-> TRUE, value |-> c[k]] ELSE [found |-> FALSE]

\* _cache[key] = value
setToCache(c, k, value) == [x \in DOMAIN c \cup {k} |-> IF x = k THEN value ELSE c[x]]

\* delete _cache[key] when key is truthy, else delete every key
clearCache(c, key) ==
    IF Truthy(key)
    THEN [x \in DOMAIN c \ {key.key} |-> c[x]]
    ELSE << >>

CallGetFromCache ==
    /\ \E k \in CacheKeys :
           /\ call' = [fn |-> "getFromCache", key |-> Key(k), before |-> cache]
           /\ ret' = Return(getFromCache(cache, k))
    /\ UNCHANGED <<cache, page, loader, form, written, results, merged, trace, timerVars, pantryVars>>

CallSetToCache ==
    /\ \E k \in CacheKeys, value \in CacheValues :
           /\ cache' = setToCache(cache, k, value)
           /\ call' = [fn |-> "setToCache", key |-> Key(k), before |-> cache]
           /\ ret' = Return(Undefined)
    /\ UNCHANGED <<page, loader, form, written, results, merged, trace, timerVars, pantryVars>>

CallClearCache ==
    /\ \E key \in {NoKey} \cup {Key(k) : k \in CacheKeys} :
           /\ cache' = clearCache(cache, key)
           /\ call' = [fn |-> "clearCache", key |-> key, before |-> cache]
           /\ ret' = Return(Undefined)
    /\ UNCHANGED <<page, loader, form, written, results, merged, trace, timerVars, pantryVars>>

NextCache == CallGetFromCache \/ CallSetToCache \/ CallClearCache

SpecCache == InitCollect /\ [][NextCache]_vars

(***************************************************************************)
(* The Recipes page: loadData and handleRecipeFormSubmit                   *)
(***************************************************************************)
\* the values the page's controls give minMatch and itemsToShow
MinMatches == {70, 80}

MaxItemsToShow == 24

\* the recipe writes of one run
MaxWrites == 2

\* user.id
UserId == "u1"

\* `canCookMatches_${user.id}_${minMatch}_${maxMissing}_${itemsToShow}`
canCookKey(st) ==
    "canCookMatches_" \o UserId \o "_" \o ToString(st.minMatch) \o "_" \o ToString(st.maxMissing)
        \o "_" \o ToString(st.itemsToShow)

\* the key of each of the three reads of loadData, in order
loadKey(stage, st) ==
    CASE stage = 1 -> "ingredients_" \o UserId
      [] stage = 2 -> "shoppingLists_" \o UserId
      [] stage = 3 -> canCookKey(st)

\* loadData runs from one await to the next: the first of its reads, from
\* stage on, that the cache does not hold is awaited; 4 when every one is held
RECURSIVE nextAwait(_, _, _)
nextAwait(c, stage, st) ==
    IF stage > 3 \/ ~getFromCache(c, loadKey(stage, st)).found
    THEN stage
    ELSE nextAwait(c, stage + 1, st)

\* the page mounts: its state is that of the first render, and the effect of
\* lines 152-154 calls loadData, whose closure holds the first render's values
Mount ==
    /\ ~page.mounted
    /\ loader.pc = 4
    /\ page' = [mounted |-> TRUE, minMatch |-> FirstRender.minMatch,
                maxMissing |-> FirstRender.maxMissing, itemsToShow |-> FirstRender.itemsToShow]
    /\ loader' = [pc |-> nextAwait(cache, 1, FirstRender), minMatch |-> FirstRender.minMatch,
                  maxMissing |-> FirstRender.maxMissing, itemsToShow |-> FirstRender.itemsToShow]
    /\ UNCHANGED <<cache, form, written, results, merged, call, ret, trace, timerVars, pantryVars>>

Unmount ==
    /\ page.mounted
    /\ page' = [page EXCEPT !.mounted = FALSE]
    /\ UNCHANGED <<cache, loader, form, written, results, merged, call, ret, trace, timerVars, pantryVars>>

\* the request loadData awaits returns: its rows are stored under the key and
\* loadData runs on to its next await; or it fails, and the catch ends the run
LoadReturns ==
    /\ loader.pc \in 1..3
    /\ \/ \E stored \in {setToCache(cache, loadKey(loader.pc, loader), [storedAt |-> written])} :
              /\ cache' = stored
              /\ loader' = [loader EXCEPT !.pc = nextAwait(stored, loader.pc + 1, loader)]
       \/ /\ loader' = [loader EXCEPT !.pc = 4]
          /\ UNCHANGED cache
    /\ UNCHANGED <<page, form, written, results, merged, call, ret, trace, timerVars, pantryVars>>

\* onChange of the minimum-match control (line 473)
SetMinMatch ==
    /\ page.mounted
    /\ \E value \in MinMatches \ {page.minMatch} : page' = [page EXCEPT !.minMatch = value]
    /\ UNCHANGED <<cache, loader, form, written, results, merged, call, ret, trace, timerVars, pantryVars>>

\* setItemsToShow(itemsToShow + 12) (lines 381, 385, 577)
ShowMore ==
    /\ page.mounted
    /\ page.itemsToShow + 12 <= MaxItemsToShow
    /\ page' = [page EXCEPT !.itemsToShow = page.itemsToShow + 12]
    /\ UNCHANGED <<cache, loader, form, written, results, merged, call, ret, trace, timerVars, pantryVars>>

\* the form is submitted: handleRecipeFormSubmit, with the closure of the
\* current render, awaits updateRecipe or addRecipe
Submit ==
    /\ page.mounted
    /\ form.pc \in {"idle", "done", "failed"}
    /\ written < MaxWrites
    /\ form' = [pc |-> "writing", minMatch |-> page.minMatch, maxMissing |-> page.maxMissing,
                itemsToShow |-> page.itemsToShow, write |-> 0]
    /\ UNCHANGED <<cache, page, loader, written, results, merged, call, ret, trace, timerVars, pantryVars>>

\* the backend completes the write, or the awaited call throws
RecipeWritten ==
    /\ form.pc = "writing"
    /\ \/ /\ written' = written + 1
          /\ form' = [form EXCEPT !.pc = "written", !.write = written + 1]
       \/ /\ form' = [form EXCEPT !.pc = "failed"]
          /\ UNCHANGED written
    /\ UNCHANGED <<cache, page, loader, results, merged, call, ret, trace, timerVars, pantryVars>>

\* after the await: the two clearCache calls of lines 220-223
SubmitClears ==
    /\ form.pc = "written"
    /\ cache' = clearCache(clearCache(cache, Key("recipes_" \o UserId)), Key(canCookKey(form)))
    /\ form' = [form EXCEPT !.pc = "done"]
    /\ UNCHANGED <<page, loader, written, results, merged, call, ret, trace, timerVars, pantryVars>>

NextRecipes ==
    Mount \/ Unmount \/ LoadReturns \/ SetMinMatch \/ ShowMore \/ Submit \/ RecipeWritten \/ SubmitClears

SpecRecipes == InitCollect /\ [][NextRecipes]_vars

(***************************************************************************)
(* Properties of collectValidationErrors                                   *)
(***************************************************************************)
Collected == merged # << >>

AllSucceeded(rs) == \A i \in 1..Len(rs) : rs[i].success

AnyFailed(rs) == \E i \in 1..Len(rs) : ~rs[i].success

\* the error lists of the failed inputs, concatenated in input order
RECURSIVE FailedErrors(_)
FailedErrors(rs) ==
    IF rs = << >>
    THEN << >>
    ELSE (IF Head(rs).success THEN << >> ELSE Head(rs).errors) \o FailedErrors(Tail(rs))

\* C1: collectValidationErrors succeeds only for a non-empty list of successes,
\* and fails whenever some input failed, even one with an empty error list.
C1_SuccessOnlyIfAllSucceed ==
    Collected =>
        /\ merged[1].success => (Len(results) >= 1 /\ AllSucceeded(results))
        /\ AnyFailed(results) => ~merged[1].success

\* C2: for a non-empty list of successes the output is a success carrying the
\* data of the last input, whatever that data is (undefined included).
C2_AllSuccessReturnsLastData ==
    (Collected /\ Len(results) >= 1 /\ AllSucceeded(results)) =>
        merged[1] = Success(results[Len(results)].data)

\* C3: a failure returned for a list with a failed input carries exactly the
\* concatenation of the failed inputs' error lists, and nothing else.
C3_ErrorsAreConcatenation ==
    (Collected /\ AnyFailed(results) /\ ~merged[1].success) =>
        merged[1].errors = FailedErrors(results)

\* C4: called with zero results, collectValidationErrors returns a failure
\* with exactly one error, whose message is "No valid data found".
C4_EmptyInputFails ==
    (Collected /\ results = << >>) =>
        /\ ~merged[1].success
        /\ Len(merged[1].errors) = 1
        /\ merged[1].errors[1].message = "No valid data found"

C4_Witness == Collected /\ results = << >>

(***************************************************************************)
(* Properties of the validation core                                       *)
(***************************************************************************)
ResultFunctions ==
    {"validate", "validatePartial", "validateArray", "parseJSON", "collectValidationErrors"}

\* C5: every ValidationResult the validation functions produce carries data
\* exactly when success is true and errors exactly when success is false.
C5_ExactlyOnePayload ==
    call.fn \in ResultFunctions =>
        /\ ("data" \in DOMAIN ret) <=> ret.success
        /\ ("errors" \in DOMAIN ret) <=> ~ret.success

C5_Witness ==
    /\ call.fn = "validate"
    /\ call.schema = <<"insert", "ingredient">>
    /\ ~ret.success
    /\ Len(ret.errors) > 1

\* C6: validateOrThrow returns the data of validate's success, and otherwise
\* throws an Error whose message is formatErrorMessage of validate's errors.
C6_ThrowsOrReturnsValidated ==
    call.fn = "validateOrThrow" =>
        LET result == validate(SchemaOf(call.schema), call.data)
        IN  IF result.success
            THEN ret = Return(result.data)
            ELSE ret = Throw(formatErrorMessage(result.errors))

C6_Witness ==
    /\ call.fn = "validateOrThrow"
    /\ ret.throws
    /\ Len(validate(SchemaOf(call.schema), call.data).errors) > 1

(***************************************************************************)
(* Properties of the data-access services                                  *)
(***************************************************************************)
\* the kind of the data-access operation called, if one was called
DbKind == IF "kind" \in DOMAIN call THEN call.kind ELSE "none"

IsRequest(i) == trace[i].ev = "request"

\* the schema a create or update validates its input against
InputSchema == <<IF call.kind = "create" THEN "insert" ELSE "update", call.e>>

\* the payloads made of a validated value: [value] for an insert, the value
\* for an update, the value with user_id: userId for the upsert
PayloadsOf(value) ==
    IF call.kind = "create" THEN {Arr(<<value>>)}
    ELSE IF "userId" \in DOMAIN call.args
         THEN {value, Obj(Spread(value.o, [user_id |-> call.args.userId]))}
         ELSE {value}

\* C7: in every create and update operation, a backend request follows a
\* validateOrThrow of the caller's input against the entity's insert/update
\* schema that returned, its payload is made of the validated value, and
\* after a validateOrThrow that threw no request is issued.
C7_WritesSendValidatedInput ==
    DbKind \in {"create", "update"} =>
        /\ \A i \in 1..Len(trace) : IsRequest(i) =>
               \E j \in 1..(i - 1) :
                   /\ trace[j].ev = "validateOrThrow"
                   /\ trace[j].schema = InputSchema
                   /\ trace[j].data = call.input
                   /\ ~trace[j].out.throws
                   /\ trace[i].payload \in PayloadsOf(trace[j].out.value)
        /\ (\E j \in 1..Len(trace) : trace[j].ev = "validateOrThrow"
                                        /\ trace[j].schema = InputSchema
                                        /\ trace[j].out.throws)
               => ~\E i \in 1..Len(trace) : IsRequest(i)

\* the rows in a value an operation returns, or in the data of a response
RowsIn(value) ==
    CASE value.t = "array" -> {value.a[i] : i \in 1..Len(value.a)}
      [] value.t \in {"null", "undefined"} -> {}
      [] OTHER -> {value}

\* C8: every row a read, create or update operation returns is the value a
\* validateOrThrow against the entity's Read schema returned (or at least a
\* row that schema accepts), and an operation whose response holds a row
\* that schema rejects throws.
C8_ReturnedRowsValidated ==
    (DbKind \in {"read", "create", "update"} /\ ret # NoCall) =>
        /\ ~ret.throws =>
               \A row \in RowsIn(ret.value) :
                   \/ \E j \in 1..Len(trace) :
                          /\ trace[j].ev = "validateOrThrow"
                          /\ trace[j].schema = <<"read", call.e>>
                          /\ trace[j].out = Return(row)
                   \/ validate(ReadSchema(call.e), row).success
        /\ \A i \in 1..Len(trace) :
               (/\ trace[i].ev = "response"
                /\ \E row \in RowsIn(trace[i].data) :
                       ~validate(ReadSchema(call.e), row).success)
                   => ret.throws

\* C9: the data validate returns for an input the Insert schema accepts,
\* merged with well-formed server-generated fields (the fields the Insert
\* schema omits), is accepted by the entity's Read schema.
C9_InsertReadRoundTrip ==
    (call.fn = "validate" /\ call.schema[1] = "insert" /\ ret.success) =>
        validate(ReadSchema(call.schema[2]),
                 Obj(Spread(ret.data.o,
                            Restrict(SampleRow(call.schema[2]), InsertOmits(call.schema[2])))))
            .success

\* C10 as stated: the payload of every update operation has only keys of the
\* entity's Insert schema and never the ownership key.
C10_NoOwnershipKeyInPayload ==
    DbKind = "update" =>
        \A i \in 1..Len(trace) : IsRequest(i) =>
            /\ DOMAIN trace[i].payload.o \subseteq DOMAIN InsertSchema(call.e).shape
            /\ OwnershipKey(call.e) \notin DOMAIN trace[i].payload.o

\* C10: the payload of every update operation has only keys of the entity's
\* Insert schema, and the ownership key never comes from the updates object:
\* the payload lacks it, except in updatePreferences, whose upsert payload
\* carries user_id set to the userId argument of the call.
C10_OwnershipNotFromUpdates ==
    DbKind = "update" =>
        \A i \in 1..Len(trace) : IsRequest(i) =>
            /\ DOMAIN trace[i].payload.o \subseteq DOMAIN InsertSchema(call.e).shape
            /\ OwnershipKey(call.e) \in DOMAIN trace[i].payload.o =>
                   /\ call.fn = "userPreferencesService.updatePreferences"
                   /\ trace[i].payload.o.user_id = call.args.userId

\* updatePreferences called for one user with updates that carry user_id of
\* another user, id, created_at and updated_at, and the request was issued
C10_Witness ==
    /\ DbKind = "update"
    /\ call.fn = "userPreferencesService.updatePreferences"
    /\ call.input.t = "object"
    /\ {"user_id", "id", "created_at", "updated_at"} \subseteq DOMAIN call.input.o
    /\ call.input.o.user_id # call.args.userId
    /\ \E i \in 1..Len(trace) : IsRequest(i)

(***************************************************************************)
(* Properties of sanitizeString                                            *)
(***************************************************************************)
\* C11: sanitizeString is idempotent: sanitizing its result again gives the
\* same string.
C11_SanitizeIdempotent ==
    call.fn = "sanitizeString" => sanitizeString(ret.s) = ret.s

\* the entity the claim gives a character, or the character itself
FiveEntities(c) ==
    CASE c = "&" -> <<"&", "a", "m", "p", ";">>
      [] c = "<" -> <<"&", "l", "t", ";">>
      [] c = ">" -> <<"&", "g", "t", ";">>
      [] c = "\"" -> <<"&", "q", "u", "o", "t", ";">>
      [] c = "'" -> <<"&", "#", "x", "2", "7", ";">>
      [] OTHER -> <<c>>

RECURSIVE IndexedErrors(_, _, _)
IndexedErrors(itemSchema, items, index) ==
    IF items = << >> THEN << >>
    ELSE LET result == validate(itemSchema, Head(items))
             errors == IF result.success THEN << >> ELSE result.errors
         IN  [k \in 1..Len(errors) |->
                 ValidationError(IF errors[k].field = "" THEN ToString(index)
                                 ELSE ToString(index) \o "." \o errors[k].field,
                                 errors[k].message)]
             \o IndexedErrors(itemSchema, Tail(items), index + 1)

\* C17: validateArrayOrThrow on an array with an element failing itemSchema
\* throws an Error whose message contains the path "<index>.<field>" of each
\* offending field, whatever their number.  No message of the registry holds
\* such a path, so the message contains the paths exactly when it is made of
\* one line per error that carries the path.
C17_MessageNamesIndexedPaths ==
    (call.fn = "validateArrayOrThrow" /\ call.data.t = "array") =>
        \A offending \in {IndexedErrors(SchemaOf(call.schema), call.data.a, 0)} :
            offending # << >> =>
                /\ ret.throws
                /\ \E header \in {"", "Validation failed:\n"} :
                       ret.message = header \o Join([k \in 1..Len(offending) |->
                                                        "- " \o offending[k].field \o ": "
                                                             \o offending[k].message], "\n")

\* the object schema a validated schema is, or refines
ObjectSchema == IF SchemaOf(call.schema).k = "refine" THEN SchemaOf(call.schema).inner
                ELSE SchemaOf(call.schema)

\* the fields of the validated object that are invalid on their own: those
\* their own schema rejects, and the confirmPassword of a sign-up form when it
\* and the password are strings that differ
InvalidFields ==
    {key \in DOMAIN ObjectSchema.shape :
         \/ Parse(ObjectSchema.shape[key],
                  IF key \in DOMAIN call.data.o THEN call.data.o[key] ELSE Undefined,
                  <<key>>).issues # << >>
         \/ /\ call.schema[1] = "form"
            /\ key = "confirmPassword"
            /\ call.data.o.confirmPassword.t = "string"
            /\ call.data.o.password.t = "string"
            /\ call.data.o.confirmPassword # call.data.o.password}

\* the paths under which a field reports its issues, dot-joined
FieldPaths(key) ==
    LET issues == Parse(ObjectSchema.shape[key],
                        IF key \in DOMAIN call.data.o THEN call.data.o[key] ELSE Undefined,
                        <<key>>).issues
    IN  {key} \cup {Join(issues[n].path, ".") : n \in 1..Len(issues)}

\* C18: validate on an object with K invalid fields returns a failure with
\* exactly K errors, each with a distinct field path that is the dot-joined
\* path of one of the invalid fields; no field twice, no top-level error.
C18_OneErrorPerInvalidField ==
    (call.fn = "validate" /\ call.data.t = "object" /\ InvalidFields # {}) =>
        /\ ~ret.success
        /\ Len(ret.errors) = Cardinality(InvalidFields)
        /\ \A i, j \in 1..Len(ret.errors) : i # j => ret.errors[i].field # ret.errors[j].field
        /\ \A i \in 1..Len(ret.errors) :
               \E key \in InvalidFields : ret.errors[i].field \in FieldPaths(key)

\* C19: formatErrorMessage returns "Validation failed" for no error, the
\* message of the error alone for one error, and for two or more the header
\* "Validation failed:" followed by one line "- {field}: {message}" per error
\* in the order of the list.
C19_FormatErrorMessage ==
    call.fn = "formatErrorMessage" =>
        LET errors == call.errors
            line(i) == "\n- " \o errors[i].field \o ": " \o errors[i].message
        IN  ret.value =
                CASE Len(errors) = 0 -> "Validation failed"
                  [] Len(errors) = 1 -> errors[1].message
                  [] OTHER -> "Validation failed:" \o Join([i \in 1..Len(errors) |-> line(i)], "")

\* formatErrorMessage was given two errors
C19_Witness ==
    /\ call.fn = "formatErrorMessage"
    /\ Len(call.errors) = 2
    /\ call.errors[1] # call.errors[2]
    /\ ret.value # "Validation failed"

\* C20: toFormErrors returns a map whose keys are exactly the fields of the
\* errors, each with the message of the last error of that field.
C20_LastErrorPerFieldWins ==
    call.fn = "toFormErrors" =>
        LET errors == call.errors
            last(field) == CHOOSE i \in 1..Len(errors) :
                               /\ errors[i].field = field
                               /\ \A j \in (i + 1)..Len(errors) : errors[j].field # field
        IN  /\ DOMAIN ret.value = {errors[i].field : i \in 1..Len(errors)}
            /\ \A field \in DOMAIN ret.value :
                   ret.value[field] = [message |-> errors[last(field)].message]

\* toFormErrors was given two errors of the same field with different messages
C20_Witness ==
    /\ call.fn = "toFormErrors"
    /\ Len(call.errors) = 2
    /\ call.errors[1].field = call.errors[2].field
    /\ call.errors[1].message # call.errors[2].message
    /\ DOMAIN ret.value = {call.errors[1].field}

Calls == Events("call")
Validations == Events("validate")

\* the call that opens the last burst: every later call came less than the
\* delay after the call before it
BurstStart ==
    CHOOSE i \in 1..Len(Calls) :
        /\ i = 1 \/ Calls[i].at - Calls[i - 1].at >= debounced.delay
        /\ \A j \in (i + 1)..Len(Calls) : Calls[j].at - Calls[j - 1].at < debounced.delay

BurstValidations == SelectSeq(Validations, LAMBDA v : v.id >= BurstStart)

\* no cleanup() since the last call of validator
NoCleanupSinceLastCall ==
    /\ history # << >>
    /\ \E i \in 1..Len(history) :
           /\ history[i].ev = "call"
           /\ \A j \in (i + 1)..Len(history) : history[j].ev = "validate"

AtMostOnceOnLastData ==
    Calls # << >> =>
        /\ Len(BurstValidations) <= 1
        /\ \A k \in 1..Len(BurstValidations) :
               LET v == BurstValidations[k]
                   last == Calls[Len(Calls)]
               IN  /\ v.id = last.id
                   /\ v.data = last.data
                   /\ v.result = validate(debounced.schema, last.data)
                   /\ v.at >= last.at + debounced.delay

\* C13: for calls of the debounced validator each made less than the delay
\* after the one before, exactly one validation is eventually performed for
\* the burst, on the data of the last call, and no sooner than the delay after
\* the last call.
C13_OneValidationPerBurst ==
    /\ []AtMostOnceOnLastData
    /\ \A n \in 1..MaxCalls :
           (Len(Calls) = n /\ NoCleanupSinceLastCall)
               ~> (Len(Calls) > n \/ ~NoCleanupSinceLastCall \/ Len(BurstValidations) = 1)

\* a burst of three calls with different data was validated once
C13_Witness ==
    /\ Len(Calls) = 3
    /\ BurstStart = 1
    /\ Calls[2].data # Calls[3].data
    /\ Len(Validations) = 1
    /\ Validations[1].data = Calls[3].data

\* C14: after cleanup(), no validation scheduled before it ever runs and its
\* promise is never resolved (a later call of validator schedules a new one);
\* a cleanup with nothing pending changes nothing.
C14_CleanupCancels ==
    /\ [](\A i, j \in 1..Len(history) :
             (i < j /\ history[i].ev = "cleanup" /\ history[j].ev = "validate") =>
                 \E k \in (i + 1)..(j - 1) :
                     history[k].ev = "call" /\ history[k].id = history[j].id)
    /\ [][(timers = {} /\ Len(Events("cleanup"))' > Len(Events("cleanup")))
              => UNCHANGED <<timeoutId, timers, now>>]_vars

\* cleanup() was called with a validation pending, and the time the validation
\* was due has passed
C14_Witness ==
    \E i \in 1..Len(history) :
        /\ i > 1
        /\ history[i].ev = "cleanup"
        /\ history[i - 1].ev = "call"
        /\ now >= history[i - 1].at + debounced.delay
        /\ \A j \in (i + 1)..Len(history) : history[j].ev = "cleanup"

(***************************************************************************)
(* Properties of the required text fields                                  *)
(***************************************************************************)
\* C21: in the data an entity schema returns, each required text field (a
\* string declared with .min(1), .max(n) and .trim()) is trimmed and has
\* between 1 and n characters.
C21_RequiredTextTrimmedNonEmpty ==
    (call.fn = "validate" /\ call.schema[1] \in {"read", "insert", "update"} /\ ret.success) =>
        \A key \in DOMAIN ret.data.o :
            LET field == ReadSchema(call.schema[2]).shape[key]
                value == ret.data.o[key]
            IN  (field.k = "string" /\ TrimCheck \in {field.checks[i] : i \in 1..Len(field.checks)}
                     /\ value.t = "string") =>
                    /\ value.s = Trim(value.s)
                    /\ Len(value.s) >= 1
                    /\ \A i \in 1..Len(field.checks) :
                           field.checks[i].c = "max" => Len(value.s) <= field.checks[i].v

(***************************************************************************)
(* Properties of sanitizeObject                                            *)
(***************************************************************************)
\* C22: sanitizeObject returns an object with the keys of obj, each string
\* property replaced by sanitizeString of it and every other property as in
\* obj (nested strings included), and leaves obj as it was.
C22_SanitizesTopLevelStringsOnly ==
    call.fn = "sanitizeObject" =>
        /\ DOMAIN ret.value.o = DOMAIN call.obj.o
        /\ \A key \in DOMAIN call.obj.o :
               IF call.obj.o[key].t = "string"
               THEN ret.value.o[key] = Str(sanitizeString(call.obj.o[key].s))
               ELSE ret.value.o[key] = call.obj.o[key]
        /\ call.objAfter = call.obj

\* sanitizeObject was given a string to escape next to an object holding one
C22_Witness ==
    /\ call.fn = "sanitizeObject"
    /\ DOMAIN call.obj.o = {"name", "notes"}
    /\ call.obj.o.name = Str(<<"<", "b", ">">>)
    /\ call.obj.o.notes = Obj([name |-> Str(<<"<">>)])
    /\ ret.value.o.name # call.obj.o.name
    /\ ret.value.o.notes = call.obj.o.notes

C24_ShoppingCallsSerializable ==
    (\A p \in 1..Shoppers : shoppers[p].pc = "done") =>
        /\ Len(pantry) = 1
        /\ pantry[1].quantity = stocked + shoppers[1].quantity + shoppers[2].quantity

(***************************************************************************)
(* Properties of the promises and the timer of the debounced validator     *)
(***************************************************************************)
\* the promise of call n is resolved by the validation with the id of the call
Resolved(n) == \E j \in 1..Len(history) : history[j].ev = "validate" /\ history[j].id = n

\* a promise is resolved at most once, by the timer its own call set, with
\* validate(schema, data) of that call, and only if neither a call nor a
\* cleanup came between the call and the callback
SettledOnlyByOwnTimer ==
    \A i, j \in 1..Len(history) :
        (history[j].ev = "validate" /\ history[i].ev = "call" /\ history[i].id = history[j].id) =>
            /\ i < j
            /\ history[j].result = validate(debounced.schema, history[i].data)
            /\ history[j].at >= history[i].at + debounced.delay
            /\ \A k \in (i + 1)..(j - 1) : history[k].ev = "validate"
            /\ \A k \in 1..Len(history) :
                   (history[k].ev = "validate" /\ history[k].id = history[j].id) => k = j

\* C25 as stated: a promise is settled only by the timer of its own call, and
\* the promise of a call followed by no call and no cleanup during the delay is
\* eventually resolved.
C25_ResolvedWhenQuietDuringDelay ==
    /\ []SettledOnlyByOwnTimer
    /\ \A n \in 1..MaxCalls :
           (/\ Len(Calls) >= n
            /\ now >= Calls[n].at + debounced.delay
            /\ \A k \in 1..Len(history) :
                   (history[k].ev \in {"call", "cleanup"} /\ history[k].at < Calls[n].at + debounced.delay)
                       => (history[k].ev = "call" /\ history[k].id <= n))
               ~> Resolved(n)

\* C25 (amended): a promise is settled only by the timer of its own call, and
\* the promise of a call followed by no call and no cleanup before its timer
\* callback runs is eventually resolved.
C25_ResolvedUnlessSuperseded ==
    /\ []SettledOnlyByOwnTimer
    /\ \A n \in 1..MaxCalls :
           (Len(Calls) = n /\ NoCleanupSinceLastCall)
               ~> (Resolved(n) \/ Len(Calls) > n \/ ~NoCleanupSinceLastCall)

\* the first call was superseded and the second cancelled, their promises
\* left pending; the promise of the third was resolved
C25_Witness ==
    /\ Len(history) = 5
    /\ history[1].ev = "call" /\ history[2].ev = "call" /\ history[3].ev = "cleanup"
    /\ history[4].ev = "call" /\ history[5].ev = "validate"
    /\ Resolved(3) /\ ~Resolved(1) /\ ~Resolved(2)

\* C26: at most one timer of the debounced validator is pending, and
\* timeoutId is non-null exactly when one is, and then names it.
C26_OneTimerNamedByTimeoutId ==
    /\ Cardinality(timers) <= 1
    /\ timeoutId # 0 <=> timers # {}
    /\ \A t \in timers : t.id = timeoutId

\* a timer was replaced by a later call, and the later timer has run
C26_Witness ==
    /\ Len(Calls) = 2
    /\ Len(Validations) = 1
    /\ Validations[1].id = 2
    /\ timers = {}
    /\ timeoutId = 0

(***************************************************************************)
(* Properties of the cache and of the Recipes page                         *)
(***************************************************************************)
\* the can-cook keys of the user, for every state of the page
CanCookKeys ==
    {canCookKey([minMatch |-> m, maxMissing |-> FirstRender.maxMissing, itemsToShow |-> i]) :
        m \in MinMatches, i \in {12, 24}}

\* C27: once a recipe write submitted through the form has completed, the
\* cache holds no can-cook match list of the user stored before that write.
C27_NoMatchesFromBeforeTheWrite ==
    form.pc = "done" =>
        \A k \in CanCookKeys \cap DOMAIN cache : cache[k].storedAt >= form.write

\* C28: clearCache(k) with a string k leaves every entry under another key
\* as it was.
C28_ClearsOnlyItsKey ==
    (call.fn = "clearCache" /\ call.key.given) =>
        \A k \in DOMAIN call.before \ {call.key.key} :
            k \in DOMAIN cache /\ cache[k] = call.before[k]

(***************************************************************************)
(* Properties of getById and getProfile                                    *)
(***************************************************************************)
\* the answer of the backend to the operation that returned
Answer == CHOOSE entry \in {trace[i] : i \in 1..Len(trace)} : entry.ev = "response"

\* the backend reports no row: no error and no data, or an error with the
\* code "PGRST116" or a message that mentions the rows
ReportsNoRow(answer) ==
    IF answer.error = Null
    THEN answer.data = Null
    ELSE answer.error.code = "PGRST116" \/ MentionsRows(answer.error.message)

\* C29: getById and getProfile return null exactly when the backend reports
\* no row; any other error, and a row the Read schema rejects, is thrown,
\* and a valid row is returned as validated.
C29_NullExactlyWhenNoRow ==
    (call # NoCall /\ "kind" \in DOMAIN call /\ Op(call.fn, call.e) \in SingleReads /\ ret # NoCall) =>
        /\ ret = Return(Null) <=> ReportsNoRow(Answer)
        /\ ~ReportsNoRow(Answer) =>
               IF Answer.error # Null \/ validateOrThrow(ReadSchema(call.e), Answer.data).throws
               THEN ret.throws
               ELSE ret = validateOrThrow(ReadSchema(call.e), Answer.data)

\* getById was answered with a row the Read schema rejects, and threw
C29_Witness ==
    /\ call # NoCall /\ "kind" \in DOMAIN call
    /\ call.fn = "recipeService.getById"
    /\ ret # NoCall
    /\ Answer.data = InvalidRow("recipe")
    /\ ret.throws

(***************************************************************************)
(* Properties of createFromRecipe                                          *)
(***************************************************************************)
FromRecipe == call # NoCall /\ "kind" \in DOMAIN call /\ call.kind = "fromRecipe"

\* the positions in trace of the insert requests, and of the validations of
\* the generated items
InsertRequests == {i \in 1..Len(trace) : trace[i].ev = "request" /\ trace[i].verb = "insert"}

ItemValidations ==
    {i \in 1..Len(trace) : trace[i].ev = "validateOrThrow" /\ trace[i].schema = <<"insert", "shoppingListItem">>}

\* the recipe ingredients getIngredients returned, once it has
IngredientsRead ==
    {i \in 1..Len(trace) : trace[i].ev = "validateOrThrow" /\ trace[i].schema = <<"read", "recipeIngredient">>}

GotIngredients ==
    /\ \E i \in 1..Len(trace) : trace[i].ev = "response" /\ trace[i].error = Null
    /\ \A i \in IngredientsRead : ~trace[i].out.throws

\* the user has an ingredient of that very name, whatever the case
Has(userIngredients, name) ==
    \E j \in 1..Len(userIngredients) : toLowerCase(userIngredients[j]) = toLowerCase(name)

\* C30: createFromRecipe sends at most one insert, after it has validated
\* every generated item, and what it inserts is the validated items; when an
\* item fails validation nothing is inserted; when the user has every
\* ingredient of the recipe it returns [] and inserts nothing.
C30_ValidatesAllBeforeTheInsert ==
    FromRecipe =>
        /\ Cardinality(InsertRequests) <= 1
        /\ \A r \in InsertRequests :
               /\ \A v \in ItemValidations : v < r /\ ~trace[v].out.throws
               /\ Cardinality(ItemValidations) = Len(trace[r].payload.a)
               /\ \A v \in ItemValidations :
                      \E n \in 1..Len(trace[r].payload.a) :
                          /\ Cardinality({w \in ItemValidations : w <= v}) = n
                          /\ trace[r].payload.a[n] = trace[v].out.value
        /\ (\E v \in ItemValidations : trace[v].out.throws) => InsertRequests = {} /\ ret.throws
        /\ (/\ GotIngredients
            /\ \A i \in IngredientsRead :
                   Has(call.args.userIngredients, trace[i].out.value.o.ingredient_name.s))
               => InsertRequests = {} /\ ret = Return(Arr(<< >>))

\* the first item passed validation and the second did not: nothing inserted
C30_Witness ==
    /\ FromRecipe
    /\ Cardinality(ItemValidations) = 2
    /\ \E v \in ItemValidations : trace[v].out.throws
    /\ \E v \in ItemValidations : ~trace[v].out.throws
    /\ InsertRequests = {}

\* the user has the one ingredient of the recipe: [] and no insert
C30_WitnessHasAll ==
    /\ FromRecipe
    /\ GotIngredients
    /\ Cardinality(IngredientsRead) = 1
    /\ \A i \in IngredientsRead :
           Has(call.args.userIngredients, trace[i].out.value.o.ingredient_name.s)
    /\ ret = Return(Arr(<< >>))

====
